---- MODULE Spec2Model ----
(***************************************************************************)
(* Markaround: the CriticMarkup annotation engine of js/app.js.            *)
(*                                                                         *)
(* A document is a sequence of one-character strings.  Offsets are the     *)
(* 0-based JavaScript offsets of the source; the k-th character of the     *)
(* JavaScript string s (s[k]) is s[k + 1] here.                            *)
(*                                                                         *)
(* The specifications:                                                     *)
(*   SpecScan     the scanner and the resolver as pure functions, applied  *)
(*                to texts typed from three bounded families of strings;   *)
(*   Spec         the application: state.source, loadContent, render,      *)
(*                single-region accept / reject, Accept All and Reject All *)
(*                (the scan-and-resolve loop, one pass per step);          *)
(*   SpecClick    single-region accept / reject on a document edited in    *)
(*                the editor since the view was rendered;                  *)
(*   SpecSuggest  suggestion mode: the keys pressed in the fallback        *)
(*                textarea, and the transaction filter of the CodeMirror   *)
(*                editor as a function;                                    *)
(*   SpecInside   isInsideMarkup of the fallback textarea and of the       *)
(*                CodeMirror editor on padded texts;                       *)
(*   SpecSep      findTopLevelSeparator as a pure function;                *)
(*   SpecGuard    suggestion mode with the re-entrancy guard, a throwing   *)
(*                execCommand, the comment button and single clicks;       *)
(*   SpecKeys     suggestion mode with every kind of key, paste included;  *)
(*   SpecLayout   the layouts and the suggestion toggle;                   *)
(*   SpecTimers   the render timer and the autosave timer;                 *)
(*   SpecHeading  the placeholders of render() and their heading prefix;   *)
(*   SpecInline   the inline rule of the markdown-it plugin;               *)
(*   SpecRestore  render(): the placeholders replaced by the HTML of the   *)
(*                regions;                                                 *)
(*   SpecWork     the calls findCriticRegions makes on unclosed openers;   *)
(*   SpecRound    keys in suggestion mode followed by Accept All or Reject *)
(*                All, the selection placed anywhere between the keys;     *)
(*   SpecKept     the same with the selection left where each key puts it; *)
(*   SpecSubst    a substitution written by the editor and resolved;       *)
(*   SpecAttr     the data-markup attribute written and read back;         *)
(*   SpecMode     the suggestion toggle and the layouts while CodeMirror   *)
(*                loads and documents are loaded and left;                 *)
(*   SpecEditor   the editor pane: the CodeMirror view or the fallback     *)
(*                textarea against state.source;                           *)
(*   SpecFair     Accept All and Reject All on well-nested texts, with the *)
(*                fairness of their loop.                                  *)
(***************************************************************************)
EXTENDS Integers, Sequences, FiniteSets, TLC

(***************************************************************************)
(* Bounds of the model.                                                    *)
(***************************************************************************)
\* Number of tokens (delimiters and literal pieces) of a free-form input.
MaxTokens == 4
\* Number of characters of the content of a single-region markup.
MaxContent == 3
\* Number of pieces of a well-nested text, the delimiters included.
MaxNestTokens == 6
\* Number of delimiters of a text made of additions' and highlights' openers
\* and closers in any order.
MaxStrayTokens == 6
\* Number of pieces of a well-nested text typed to be loaded into the
\* application.
MaxLoadTokens == 4
\* Number of delimiters of a text loaded to be edited before its regions are
\* resolved one by one.
MaxClickTokens == 4
\* Number of edits made in the editor after the document was loaded.
MaxEdits == 1
\* Number of pieces of a text loaded to be edited in suggestion mode.
MaxEditTokens == 2
\* Number of keystrokes made in the editor once the selection is placed.
MaxKeys == 2
MaxGuardTokens == 2
MaxSepTokens == 5
\* Number of pieces of a text whose regions may hold a heading.
MaxHeadTokens == 5
\* Number of pieces of a text given to the inline rule of markdown-it.
MaxInlineTokens == 5
\* Number of pieces of a text rendered to HTML.
MaxRestoreTokens == 4
\* Number of characters of a plain document edited in suggestion mode.
MaxRoundTokens == 2
\* Number of delimiters of a text whose scan is measured.
MaxWorkTokens == 12
\* Number of pieces of the deleted and the inserted text of a substitution.
MaxSubstTokens == 3
\* Number of pieces of the content of a region written to a data-markup
\* attribute.
MaxEntityTokens == 3
\* Number of pieces of a text typed in the input area before it is loaded
\* into the editor pane.
MaxEditorTokens == 1
\* Number of pieces of a text inspected by isInsideMarkup, the run of plain
\* characters apart.
MaxWindowTokens == 3
\* Number of characters of the run of plain characters of such a text.
PadLen == 497
\* How far from the end of such a text the inspected position lies at most.
MaxTail == 4

(***************************************************************************)
(* JavaScript string primitives.                                           *)
(***************************************************************************)
Clamp(x, n) == IF x < 0 THEN 0 ELSE IF x > n THEN n ELSE x

\* String.prototype.substring(a, b): both arguments clamped to [0, length],
\* swapped when a > b.
substring(s, a, b) ==
  LET n == Len(s)
      a1 == Clamp(a, n)
      b1 == Clamp(b, n)
      lo == IF a1 <= b1 THEN a1 ELSE b1
      hi == IF a1 <= b1 THEN b1 ELSE a1
  IN  SubSeq(s, lo + 1, hi)

\* String.prototype.slice(a, b): a negative argument counts from the end,
\* the result is empty when a >= b.
slice(s, a, b) ==
  LET n == Len(s)
      a1 == IF a < 0 THEN Clamp(n + a, n) ELSE Clamp(a, n)
      b1 == IF b < 0 THEN Clamp(n + b, n) ELSE Clamp(b, n)
  IN  IF a1 >= b1 THEN <<>> ELSE SubSeq(s, a1 + 1, b1)

\* String.prototype.slice(a): to the end of the string.
sliceFrom(s, a) == slice(s, a, Len(s))

\* String.prototype.substr(start, length), start >= 0.
substr(s, start, length) == SubSeq(s, Clamp(start, Len(s)) + 1, Clamp(start + length, Len(s)))

\* String.prototype.indexOf(pat): the offset of the first occurrence, or -1.
RECURSIVE indexOfFrom(_, _, _)
indexOfFrom(s, pat, i) ==
  IF i + Len(pat) > Len(s) THEN -1
  ELSE IF SubSeq(s, i + 1, i + Len(pat)) = pat THEN i
  ELSE indexOfFrom(s, pat, i + 1)

indexOf(s, pat) == indexOfFrom(s, pat, 0)

\* String.prototype.lastIndexOf(pat): the offset of the last occurrence, or
\* -1.  The offsets from lo to hi are searched from the highest down, the
\* upper half before the lower one.
RECURSIVE lastIndexOfIn(_, _, _, _)
lastIndexOfIn(s, pat, lo, hi) ==
  IF lo > hi THEN -1
  ELSE IF lo = hi THEN IF SubSeq(s, lo + 1, lo + Len(pat)) = pat THEN lo ELSE -1
  ELSE LET mid == (lo + hi) \div 2
           upper == lastIndexOfIn(s, pat, mid + 1, hi)
       IN  IF upper # -1 THEN upper ELSE lastIndexOfIn(s, pat, lo, mid)

lastIndexOf(s, pat) == lastIndexOfIn(s, pat, 0, Len(s) - Len(pat))

\* String.prototype.replace(/pat/g, rep) for a literal pattern: every
\* occurrence, left to right, without rescanning the replacement.
RECURSIVE replaceAll(_, _, _)
replaceAll(s, pat, rep) ==
  IF Len(s) < Len(pat) THEN s
  ELSE IF SubSeq(s, 1, Len(pat)) = pat
    THEN rep \o replaceAll(SubSeq(s, Len(pat) + 1, Len(s)), pat, rep)
    ELSE <<Head(s)>> \o replaceAll(Tail(s), pat, rep)

\* Number -> decimal string (string concatenation with a number).
Digits == <<"0", "1", "2", "3", "4", "5", "6", "7", "8", "9">>
RECURSIVE toDecimal(_)
toDecimal(n) == IF n < 10 THEN <<Digits[n + 1]>> ELSE Append(toDecimal(n \div 10), Digits[(n % 10) + 1])

\* parseInt(s, 10) of a string of decimal digits.
DigitValue(c) == CHOOSE d \in 0..9 : Digits[d + 1] = c
RECURSIVE parseInt(_)
parseInt(s) == IF Len(s) = 0 THEN 0
               ELSE 10 * parseInt(SubSeq(s, 1, Len(s) - 1)) + DigitValue(s[Len(s)])

\* The character entities of escapeHtml.
Amp  == <<"&", "a", "m", "p", ";">>
Lt   == <<"&", "l", "t", ";">>
Gt   == <<"&", "g", "t", ";">>
Quot == <<"&", "q", "u", "o", "t", ";">>

(***************************************************************************)
(* The five kinds and their delimiters.                                    *)
(***************************************************************************)
Kinds == {"addition", "deletion", "substitution", "comment", "highlight"}

OpenerOf(k) ==
  CASE k = "addition"     -> <<"{", "+", "+">>
    [] k = "deletion"     -> <<"{", "-", "-">>
    [] k = "substitution" -> <<"{", "~", "~">>
    [] k = "comment"      -> <<"{", ">", ">">>
    [] k = "highlight"    -> <<"{", "=", "=">>

CloserOf(k) ==
  CASE k = "addition"     -> <<"+", "+", "}">>
    [] k = "deletion"     -> <<"-", "-", "}">>
    [] k = "substitution" -> <<"~", "~", "}">>
    [] k = "comment"      -> <<"<", "<", "}">>
    [] k = "highlight"    -> <<"=", "=", "}">>

Separator == <<"~", ">">>

(***************************************************************************)
(* The scanner.                                                            *)
(***************************************************************************)
\* detectCriticOpener returns null when no opener starts at i.
NoOpener == [type |-> "null", closer |-> <<>>]

detectCriticOpener(source, i) ==
  LET s == substring(source, i, i + 3) IN
  IF      s = <<"{", "+", "+">> THEN [type |-> "addition",     closer |-> <<"+", "+", "}">>]
  ELSE IF s = <<"{", "-", "-">> THEN [type |-> "deletion",     closer |-> <<"-", "-", "}">>]
  ELSE IF s = <<"{", "~", "~">> THEN [type |-> "substitution", closer |-> <<"~", "~", "}">>]
  ELSE IF s = <<"{", ">", ">">> THEN [type |-> "comment",      closer |-> <<"<", "<", "}">>]
  ELSE IF s = <<"{", "=", "=">> THEN [type |-> "highlight",    closer |-> <<"=", "=", "}">>]
  ELSE NoOpener

\* Mutant of findCriticClose: the first closer wins, nested regions are not
\* skipped (a lazy regular-expression match).
RECURSIVE findCriticCloseNoNesting(_, _, _)
findCriticCloseNoNesting(source, i, closer) ==
  IF ~(i <= Len(source) - 3) THEN -1
  ELSE IF substring(source, i, i + 3) = closer THEN i + 3
  ELSE findCriticCloseNoNesting(source, i + 1, closer)

\* Mutant of findCriticClose: the loop stops one character early
\* (i < length - 3), so that a closer at the very end of the input is missed.
RECURSIVE findCriticCloseStrict(_, _, _)
findCriticCloseStrict(source, i, closer) ==
  IF ~(i < Len(source) - 3) THEN -1
  ELSE IF substring(source, i, i + 3) = closer THEN i + 3
  ELSE IF source[i + 1] = "{"
    THEN LET nested == detectCriticOpener(source, i) IN
         IF nested.type # "null"
           THEN LET nestedEnd == findCriticCloseStrict(source, i + 3, nested.closer) IN
                IF nestedEnd # -1
                  THEN findCriticCloseStrict(source, nestedEnd, closer)
                  ELSE findCriticCloseStrict(source, i + 1, closer)
           ELSE findCriticCloseStrict(source, i + 1, closer)
    ELSE findCriticCloseStrict(source, i + 1, closer)

\* findCriticClose(source, startPos, closer): the while loop, with i the loop
\* variable; -1 when the input ends before the closer is found.
RECURSIVE findCriticClose(_, _, _)
findCriticClose(source, i, closer) ==
  IF ~(i <= Len(source) - 3) THEN -1
  ELSE IF substring(source, i, i + 3) = closer THEN i + 3
  ELSE IF source[i + 1] = "{"
    THEN LET nested == detectCriticOpener(source, i) IN
         IF nested.type # "null"
           THEN LET nestedEnd == findCriticClose(source, i + 3, nested.closer) IN
                IF nestedEnd # -1
                  THEN findCriticClose(source, nestedEnd, closer)
                  ELSE findCriticClose(source, i + 1, closer)
           ELSE findCriticClose(source, i + 1, closer)
    ELSE findCriticClose(source, i + 1, closer)

\* Mutant of findCriticRegionsLoop: after a region the sweep resumes at the
\* next character instead of at the region's end.
RECURSIVE findCriticRegionsLoopNoSkip(_, _, _)
findCriticRegionsLoopNoSkip(source, i, regions) ==
  IF ~(i < Len(source)) THEN regions
  ELSE LET opener == detectCriticOpener(source, i)
           end == IF opener.type # "null"
                    THEN findCriticClose(source, i + 3, opener.closer) ELSE -1
       IN  IF end # -1
             THEN findCriticRegionsLoopNoSkip(source, i + 1,
                    Append(regions, [start |-> i, end |-> end, type |-> opener.type,
                                     fullMarkup |-> substring(source, i, end)]))
             ELSE findCriticRegionsLoopNoSkip(source, i + 1, regions)

\* Mutant of findCriticRegionsLoop: the closer is looked for from the second
\* character of the opener on (i + 1 instead of i + 3).
RECURSIVE findCriticRegionsLoopNearClose(_, _, _)
findCriticRegionsLoopNearClose(source, i, regions) ==
  IF ~(i < Len(source)) THEN regions
  ELSE LET opener == detectCriticOpener(source, i)
           end == IF opener.type # "null"
                    THEN findCriticClose(source, i + 1, opener.closer) ELSE -1
       IN  IF end # -1
             THEN findCriticRegionsLoopNearClose(source, end,
                    Append(regions, [start |-> i, end |-> end, type |-> opener.type,
                                     fullMarkup |-> substring(source, i, end)]))
             ELSE findCriticRegionsLoopNearClose(source, i + 1, regions)

\* Mutant of findCriticRegionsLoop: an opener without a closer ends the scan
\* (the rest of the input is given up).
RECURSIVE findCriticRegionsLoopGiveUp(_, _, _)
findCriticRegionsLoopGiveUp(source, i, regions) ==
  IF ~(i < Len(source)) THEN regions
  ELSE LET opener == detectCriticOpener(source, i)
           end == IF opener.type # "null"
                    THEN findCriticClose(source, i + 3, opener.closer) ELSE -1
       IN  IF opener.type # "null" /\ end = -1 THEN regions
           ELSE IF end # -1
             THEN findCriticRegionsLoopGiveUp(source, end,
                    Append(regions, [start |-> i, end |-> end, type |-> opener.type,
                                     fullMarkup |-> substring(source, i, end)]))
             ELSE findCriticRegionsLoopGiveUp(source, i + 1, regions)

\* The while loop of findCriticRegions, with i the loop variable and regions
\* the array built so far.
RECURSIVE findCriticRegionsLoop(_, _, _)
findCriticRegionsLoop(source, i, regions) ==
  IF ~(i < Len(source)) THEN regions
  ELSE IF source[i + 1] = "{"
    THEN LET opener == detectCriticOpener(source, i) IN
         IF opener.type # "null"
           THEN LET end == findCriticClose(source, i + 3, opener.closer) IN
                IF end # -1
                  THEN findCriticRegionsLoop(source, end,
                         Append(regions, [start |-> i, end |-> end, type |-> opener.type,
                                          fullMarkup |-> substring(source, i, end)]))
                  ELSE findCriticRegionsLoop(source, i + 1, regions)
           ELSE findCriticRegionsLoop(source, i + 1, regions)
    ELSE findCriticRegionsLoop(source, i + 1, regions)

findCriticRegions(source) == findCriticRegionsLoop(source, 0, <<>>)

\* Mutant of findTopLevelSeparator: the first `~>` wins, nested regions are
\* not skipped (indexOf).
RECURSIVE findTopLevelSeparatorFirst(_, _)
findTopLevelSeparatorFirst(content, i) ==
  IF ~(i < Len(content) - 1) THEN -1
  ELSE IF content[i + 1] = "~" /\ content[i + 2] = ">" THEN i
  ELSE findTopLevelSeparatorFirst(content, i + 1)

\* The while loop of findTopLevelSeparator, with i the loop variable.
RECURSIVE findTopLevelSeparatorLoop(_, _)
findTopLevelSeparatorLoop(content, i) ==
  IF ~(i < Len(content) - 1) THEN -1
  ELSE IF content[i + 1] = "~" /\ content[i + 2] = ">" THEN i
  ELSE IF content[i + 1] = "{"
    THEN LET opener == detectCriticOpener(content, i) IN
         IF opener.type # "null"
           THEN LET end == findCriticClose(content, i + 3, opener.closer) IN
                IF end # -1
                  THEN findTopLevelSeparatorLoop(content, end)
                  ELSE findTopLevelSeparatorLoop(content, i + 1)
           ELSE findTopLevelSeparatorLoop(content, i + 1)
    ELSE findTopLevelSeparatorLoop(content, i + 1)

findTopLevelSeparator(content) == findTopLevelSeparatorLoop(content, 0)

(***************************************************************************)
(* The resolver.                                                           *)
(***************************************************************************)
\* Mutant of acceptMarkup: the substitution is split one character late
\* (the separator is taken to be one character long).
acceptMarkupOffByOne(originalMarkup) ==
  LET opener == detectCriticOpener(originalMarkup, 0)
      content == substring(originalMarkup, 3, Len(originalMarkup) - 3)
  IN  IF opener.type = "null" THEN originalMarkup
      ELSE CASE opener.type = "addition"     -> content
             [] opener.type = "deletion"     -> <<>>
             [] opener.type = "substitution" ->
                  LET sep == findTopLevelSeparator(content) IN
                  IF sep # -1 THEN substring(content, sep + 1, Len(content)) ELSE <<>>
             [] opener.type = "comment"      -> <<>>
             [] opener.type = "highlight"    -> content

\* A plausible slip: accepting a highlight keeps the highlight.
acceptMarkupKeepsHighlight(originalMarkup) ==
  LET opener == detectCriticOpener(originalMarkup, 0)
      content == substring(originalMarkup, 3, Len(originalMarkup) - 3)
  IN  IF opener.type = "null" THEN originalMarkup
      ELSE CASE opener.type = "addition"     -> content
             [] opener.type = "deletion"     -> <<>>
             [] opener.type = "substitution" ->
                  LET sep == findTopLevelSeparator(content) IN
                  IF sep # -1 THEN substring(content, sep + 2, Len(content)) ELSE <<>>
             [] opener.type = "comment"      -> <<>>
             [] opener.type = "highlight"    -> originalMarkup

acceptMarkup(originalMarkup) ==
  LET opener == detectCriticOpener(originalMarkup, 0)
      content == substring(originalMarkup, 3, Len(originalMarkup) - 3)
  IN  IF opener.type = "null" THEN originalMarkup
      ELSE CASE opener.type = "addition"     -> content
             [] opener.type = "deletion"     -> <<>>
             [] opener.type = "substitution" ->
                  LET sep == findTopLevelSeparator(content) IN
                  IF sep # -1 THEN substring(content, sep + 2, Len(content)) ELSE <<>>
             [] opener.type = "comment"      -> <<>>
             [] opener.type = "highlight"    -> content

\* A plausible slip: the body of acceptMarkup copied without being adapted.
rejectMarkupAsAccept(originalMarkup) == acceptMarkup(originalMarkup)

rejectMarkup(originalMarkup) ==
  LET opener == detectCriticOpener(originalMarkup, 0)
      content == substring(originalMarkup, 3, Len(originalMarkup) - 3)
  IN  IF opener.type = "null" THEN originalMarkup
      ELSE CASE opener.type = "addition"     -> <<>>
             [] opener.type = "deletion"     -> content
             [] opener.type = "substitution" ->
                  LET sep == findTopLevelSeparator(content) IN
                  IF sep # -1 THEN substring(content, 0, sep) ELSE content
             [] opener.type = "comment"      -> <<>>
             [] opener.type = "highlight"    -> content

(***************************************************************************)
(* State.                                                                  *)
(***************************************************************************)
VARIABLES
  input,     \* inputArea.value: the text typed so far
  mode,      \* how the text is typed: "free", "nested", "chars", "short", "stray", "click",
             \* "edit", "window", and one mode for each later specification
  ntok,      \* number of pieces typed
  open,      \* the regions opened and not yet closed, innermost last
  typed,     \* the regions of the text as it was typed, with their depth
  phase,     \* "typing", then "scanned" and "resolved" (SpecScan) or "loaded" (Spec)
  scanned,   \* SpecScan: the array findCriticRegions(input) returned
  accepted,  \* SpecScan: acceptMarkup of each scanned region's fullMarkup; SpecInline: the
             \* tokens of the inline parser; SpecRestore: renderedView.innerHTML
  rejected,  \* SpecScan: rejectMarkup of each scanned region's fullMarkup
  source,    \* state.source
  pc,        \* "idle", or the function whose loop is running: "acceptAll", "rejectAll"
  regions,   \* the local variable regions of acceptAll / rejectAll
  passes,    \* iterations of the while loop completed by the running acceptAll / rejectAll
  mdCalls,   \* the arguments of the md.render calls of the latest render()
  view,      \* renderedView: the elements carrying data-markup, in document order
  last,      \* the latest operation: its name, its inputs, state.source before it
  value,     \* fallbackTextarea.value
  selStart,  \* fallbackTextarea.selectionStart
  selEnd,    \* fallbackTextarea.selectionEnd
  suggestionModeActive,
  renderTimer, \* TRUE while the timer of debouncedRender is armed
  dirty,     \* the dirty flag of Autosave
  nedits,    \* number of edits made in the editor since the document was loaded
  keys,      \* the 'beforeinput' events of the editor since the selection was placed
  suggestionApplying,    \* the guard of suggestionExec
  pending,               \* number of timeouts of debouncedRender set and neither cleared nor fired
  lastFallbackSelection, \* the selection of the textarea as trackSelection saved it
  currentLayout,         \* "both", "editor-only" or "preview-only"
  stored,    \* the autosaved copy in localStorage: <<>> when there is none, else <<source>>
  Editor,    \* TRUE when window.CriticEditor is loaded ('editor-ready' has fired)
  editorView \* <<>> when there is no CodeMirror view, else <<v>> with v.doc the document
             \* and v.suggestionMode the value of suggestionModeField

scanVars == <<input, mode, ntok, open, typed, phase, scanned, accepted, rejected>>
appVars == <<source, pc, regions, passes, mdCalls, view, last>>
uiVars == <<suggestionApplying, pending, lastFallbackSelection, currentLayout, stored, Editor,
            editorView>>
editVars == <<value, selStart, selEnd, suggestionModeActive, renderTimer, dirty, nedits, keys,
              uiVars>>
vars == <<scanVars, appVars, editVars>>

(***************************************************************************)
(* SpecScan: a text is typed piece by piece, then scanned and resolved.    *)
(*                                                                         *)
(*   "free"    any sequence of at most MaxTokens delimiters and literal    *)
(*             pieces, closed or not;                                      *)
(*   "nested"  at most MaxNestTokens pieces, well nested: literal pieces   *)
(*             and complete regions whose content is again well nested;    *)
(*   "chars"   one region: an opener, at most MaxContent arbitrary         *)
(*             characters, the closer of the same kind;                    *)
(*   "short"   as "nested", with at most MaxLoadTokens pieces;             *)
(*   "stray"   any sequence of at most MaxStrayTokens openers and closers  *)
(*             of additions and highlights;                                *)
(*   "click"   any sequence of at most MaxClickTokens openers and closers  *)
(*             of additions;                                               *)
(*   "edit"    any sequence of at most MaxEditTokens openers and closers   *)
(*             of additions and literal pieces;                            *)
(*   "window"  at most MaxWindowTokens delimiters and literal pieces and   *)
(*             one long run of plain characters.                           *)
(***************************************************************************)
Modes == {"free", "nested", "chars"}

\* Literal pieces that are no delimiter by themselves.
PlainTokens == { <<"a">>, <<"{">>, Separator }

Openers == { OpenerOf(k) : k \in Kinds }
Closers == { CloserOf(k) : k \in Kinds }
TokenSet == Openers \cup Closers \cup { <<"a">>, <<"{">> }
StrayKinds == {"addition", "highlight"}
StrayTokens == { OpenerOf(k) : k \in StrayKinds } \cup { CloserOf(k) : k \in StrayKinds }
ClickTokens == { OpenerOf("addition"), CloserOf("addition") }
EditTokens == { OpenerOf("addition"), CloserOf("addition"), <<"a">>, <<"b">> }
GuardTokens == { OpenerOf("addition"), CloserOf("addition"), <<"a">> }
SepTokens == { OpenerOf("addition"), CloserOf("addition"), OpenerOf("substitution"),
               CloserOf("substitution"), Separator, <<"a">> }

HeadTokens == { OpenerOf("addition"), CloserOf("addition"), OpenerOf("comment"),
                CloserOf("comment"), <<"#">>, <<" ">>, <<"\n">>, <<"a">> }

InlineTokens == { OpenerOf("addition"), CloserOf("addition"), OpenerOf("substitution"),
                  CloserOf("substitution"), Separator, <<"a">> }

RestoreTokens == { OpenerOf("addition"), CloserOf("addition"), <<"$">>, <<"&">>, <<"a">>,
                   <<"%", "%", "C", "R", "I", "T", "I", "C", "_", "0", "%", "%">> }

RoundTokens == { <<"a">>, <<"b">> }

EditorTokens == { <<"a">>, <<"{", "+", "+", "a", "+", "+", "}">> }

\* The text of a file read by the FileReader: its lines end in "\r\n".
FileTexts == { <<"a", "\r", "\n", "b">> }

EntityTokens == { <<"&">>, <<"l", "t", ";">>, <<"a", "m", "p", ";">>, <<"<">>, <<"\"">>,
                  <<"a">> }

ContentChars == {"{", "}", "+", "-", "~", ">", "<", "=", "a"}

NoOp == [op |-> "none", prev |-> "none", before |-> <<>>, type |-> "null",
         markup |-> <<>>, offset |-> 0, accept |-> FALSE]

\* The application before a document is loaded.
AppIdle ==
  /\ source = <<>>
  /\ pc = "idle"
  /\ regions = <<>>
  /\ passes = 0
  /\ mdCalls = <<>>
  /\ view = <<>>
  /\ last = NoOp
  /\ value = <<>>
  /\ selStart = 0
  /\ selEnd = 0
  /\ suggestionModeActive = FALSE
  /\ renderTimer = FALSE
  /\ dirty = FALSE
  /\ nedits = 0
  /\ keys = <<>>
  /\ suggestionApplying = FALSE
  /\ pending = 0
  /\ lastFallbackSelection = [start |-> 0, end |-> 0]
  /\ currentLayout = "both"
  /\ stored = <<>>
  /\ Editor = FALSE
  /\ editorView = <<>>

ScanInit ==
  /\ input = <<>>
  /\ mode \in Modes
  /\ ntok = 0
  /\ open = <<>>
  /\ typed = <<>>
  /\ phase = "typing"
  /\ scanned = <<>>
  /\ accepted = <<>>
  /\ rejected = <<>>
  /\ AppIdle

\* Room left for pieces, the closers of the open regions included.
Room == IF mode = "nested" THEN MaxNestTokens - ntok - Len(open)
        ELSE IF mode = "short" THEN MaxLoadTokens - ntok - Len(open)
        ELSE IF mode = "free" THEN MaxTokens - ntok
        ELSE IF mode = "stray" THEN MaxStrayTokens - ntok
        ELSE IF mode = "click" THEN MaxClickTokens - ntok
        ELSE IF mode = "edit" THEN MaxEditTokens - ntok
        ELSE IF mode = "window" THEN MaxWindowTokens - ntok
        ELSE IF mode = "guard" THEN MaxGuardTokens - ntok
        ELSE IF mode = "sep" THEN MaxSepTokens - ntok
        ELSE IF mode = "heading" THEN MaxHeadTokens - ntok
        ELSE IF mode = "inline" THEN MaxInlineTokens - ntok
        ELSE IF mode = "restore" THEN MaxRestoreTokens - ntok
        ELSE IF mode = "work" THEN MaxWorkTokens - ntok
        ELSE IF mode = "round" THEN MaxRoundTokens - ntok
        ELSE IF mode = "subst" THEN MaxSubstTokens - ntok
        ELSE IF mode = "entity" THEN MaxEntityTokens - ntok
        ELSE IF mode = "editor" THEN MaxEditorTokens - ntok
        ELSE 1

TypeToken(t) ==
  /\ phase = "typing" /\ Room >= 1
  /\ \/ mode = "free"
     \/ mode = "stray" /\ t \in StrayTokens
     \/ mode = "click" /\ t \in ClickTokens
     \/ mode = "edit" /\ t \in EditTokens
     \/ mode = "guard" /\ t \in GuardTokens
     \/ mode = "sep" /\ t \in SepTokens
     \/ mode = "heading" /\ t \in HeadTokens
     \/ mode = "inline" /\ t \in InlineTokens
     \/ mode = "restore" /\ t \in RestoreTokens
     \/ mode = "work" /\ t \in ClickTokens
     \/ mode = "round" /\ t \in RoundTokens
     \/ mode = "subst" /\ t \in SepTokens
     \/ mode = "entity" /\ t \in EntityTokens
     \/ mode = "editor" /\ t \in EditorTokens
     \/ mode = "window"
  /\ input' = input \o t
  /\ ntok' = ntok + 1
  /\ UNCHANGED <<mode, open, typed, phase, scanned, accepted, rejected, appVars, editVars>>

TypePlain(p) ==
  /\ phase = "typing" /\ mode \in {"nested", "short"} /\ Room >= 1
  /\ input' = input \o p
  /\ ntok' = ntok + 1
  /\ UNCHANGED <<mode, open, typed, phase, scanned, accepted, rejected, appVars, editVars>>

TypeChar(c) ==
  /\ phase = "typing" /\ mode = "chars" /\ Len(open) = 1 /\ ntok - 1 < MaxContent
  /\ input' = Append(input, c)
  /\ ntok' = ntok + 1
  /\ UNCHANGED <<mode, open, typed, phase, scanned, accepted, rejected, appVars, editVars>>

TypeOpen(k) ==
  /\ phase = "typing"
  /\ \/ mode \in {"nested", "short"} /\ Room >= 2
     \/ mode = "chars" /\ input = <<>>
  /\ input' = input \o OpenerOf(k)
  /\ open' = Append(open, [kind |-> k, start |-> Len(input)])
  /\ ntok' = ntok + 1
  /\ UNCHANGED <<mode, typed, phase, scanned, accepted, rejected, appVars, editVars>>

TypeClose ==
  /\ phase = "typing" /\ open # <<>>
  /\ LET top == open[Len(open)] IN
     /\ input' = input \o CloserOf(top.kind)
     /\ open' = SubSeq(open, 1, Len(open) - 1)
     /\ typed' = Append(typed, [start |-> top.start, end |-> Len(input) + 3,
                                type |-> top.kind, depth |-> Len(open) - 1])
  /\ ntok' = ntok + 1
  /\ UNCHANGED <<mode, phase, scanned, accepted, rejected, appVars, editVars>>

\* regions = findCriticRegions(source)
Scan ==
  /\ phase = "typing" /\ open = <<>>
  /\ scanned' = findCriticRegions(input)
  /\ phase' = "scanned"
  /\ UNCHANGED <<input, mode, ntok, open, typed, accepted, rejected, appVars, editVars>>

\* acceptMarkup(r.fullMarkup) and rejectMarkup(r.fullMarkup) for every region
\* r of the scan, as the Accept All / Reject All passes and the accept and
\* reject buttons compute them.
Resolve ==
  /\ phase = "scanned"
  /\ accepted' = [k \in 1..Len(scanned) |-> acceptMarkup(scanned[k].fullMarkup)]
  /\ rejected' = [k \in 1..Len(scanned) |-> rejectMarkup(scanned[k].fullMarkup)]
  /\ phase' = "resolved"
  /\ UNCHANGED <<input, mode, ntok, open, typed, scanned, appVars, editVars>>

ScanNext ==
  \/ \E t \in TokenSet : TypeToken(t)
  \/ \E p \in PlainTokens : TypePlain(p)
  \/ \E c \in ContentChars : TypeChar(c)
  \/ \E k \in Kinds : TypeOpen(k)
  \/ TypeClose
  \/ Scan
  \/ Resolve

SpecScan == ScanInit /\ [][ScanNext]_vars

(***************************************************************************)
(* The render pipeline.                                                    *)
(***************************************************************************)
escapeHtml(str) ==
  replaceAll(replaceAll(replaceAll(replaceAll(str, <<"&">>, Amp), <<"<">>, Lt), <<">">>, Gt),
             <<"\"">>, Quot)

\* What the HTML parser makes of an attribute value written by
\* renderCriticRegion: each character reference is decoded once.
RECURSIVE htmlDecode(_)
htmlDecode(s) ==
  IF s = <<>> THEN <<>>
  ELSE IF substring(s, 0, 5) = Amp THEN <<"&">> \o htmlDecode(SubSeq(s, 6, Len(s)))
  ELSE IF substring(s, 0, 4) = Lt THEN <<"<">> \o htmlDecode(SubSeq(s, 5, Len(s)))
  ELSE IF substring(s, 0, 4) = Gt THEN <<">">> \o htmlDecode(SubSeq(s, 5, Len(s)))
  ELSE IF substring(s, 0, 6) = Quot THEN <<"\"">> \o htmlDecode(SubSeq(s, 7, Len(s)))
  ELSE <<Head(s)>> \o htmlDecode(Tail(s))

\* inner.replace(/^\n+|\n+$/g, '')
RECURSIVE trimNewlines(_)
trimNewlines(s) ==
  IF s # <<>> /\ Head(s) = "\n" THEN trimNewlines(Tail(s))
  ELSE IF s # <<>> /\ s[Len(s)] = "\n" THEN trimNewlines(SubSeq(s, 1, Len(s) - 1))
  ELSE s

\* The longest prefix of s made of characters of the set cs.
RECURSIVE spanOf(_, _)
spanOf(s, cs) == IF s # <<>> /\ Head(s) \in cs THEN <<Head(s)>> \o spanOf(Tail(s), cs) ELSE <<>>

Whitespace == {" ", "\t", "\n", "\r"}
MaxHeadingLevel == 6

\* A plausible slip: the kind of the region is not looked at.
headingPrefixAnyKind(src, r) ==
  LET inner == substring(r.fullMarkup, 3, Len(r.fullMarkup) - 3)
      trimmed == trimNewlines(inner)
      atLineStart == r.start = 0 \/ src[r.start] = "\n"
      hashesAll == spanOf(trimmed, {"#"})
      hashes == SubSeq(hashesAll, 1, Clamp(Len(hashesAll), MaxHeadingLevel))
      spaces == spanOf(SubSeq(trimmed, Len(hashes) + 1, Len(trimmed)), Whitespace)
  IN IF atLineStart /\ ~(\E k \in 1..Len(trimmed) : trimmed[k] = "\n")
        /\ Len(hashes) >= 1 /\ Len(spaces) >= 1
       THEN hashes \o spaces
       ELSE <<>>

\* trimmed.match(/^(#{1,6}\s+)/): the heading prefix kept in front of the
\* placeholder, or the empty string.
headingPrefix(src, r) ==
  IF r.type \in {"addition", "deletion", "highlight"}
    THEN LET inner == substring(r.fullMarkup, 3, Len(r.fullMarkup) - 3)
             trimmed == trimNewlines(inner)
             atLineStart == r.start = 0 \/ src[r.start] = "\n"
             hashesAll == spanOf(trimmed, {"#"})
             hashes == SubSeq(hashesAll, 1, Clamp(Len(hashesAll), MaxHeadingLevel))
             spaces == spanOf(SubSeq(trimmed, Len(hashes) + 1, Len(trimmed)), Whitespace)
         IN IF atLineStart /\ ~(\E k \in 1..Len(trimmed) : trimmed[k] = "\n")
               /\ Len(hashes) >= 1 /\ Len(spaces) >= 1
              THEN hashes \o spaces
              ELSE <<>>
    ELSE <<>>

placeholder(r) == <<"%", "%", "C", "R", "I", "T", "I", "C", "_">> \o toDecimal(r) \o <<"%", "%">>

\* The text handed to markdown-it when there are regions: the source with
\* each region replaced by its placeholder.
RECURSIVE processedFrom(_, _, _, _)
processedFrom(src, regs, r, lastEnd) ==
  IF r >= Len(regs) THEN substring(src, lastEnd, Len(src))
  ELSE substring(src, lastEnd, regs[r + 1].start)
         \o headingPrefix(src, regs[r + 1]) \o placeholder(r)
         \o processedFrom(src, regs, r + 1, regs[r + 1].end)

\* A plausible slip: the source is escaped before markdown-it sees it.
mdRenderCallsEscaped(src, regs) ==
  IF Len(regs) = 0 THEN << escapeHtml(src) >> ELSE << processedFrom(src, regs, 0, 0) >>

\* The arguments of the md.render calls of one render().
mdRenderCalls(src, regs) ==
  IF Len(regs) = 0 THEN << src >> ELSE << processedFrom(src, regs, 0, 0) >>

\* The elements of renderedView that carry data-markup and data-offset, one
\* for each placeholder, with the attribute values getAttribute returns.
renderedView(regs) ==
  [k \in 1..Len(regs) |->
     [type   |-> regs[k].type,
      markup |-> htmlDecode(escapeHtml(regs[k].fullMarkup)),
      offset |-> toDecimal(regs[k].start)]]

\* A plausible slip: the timeout set before is left to fire.
debouncedRenderNoClear ==
  /\ renderTimer' = TRUE
  /\ pending' = pending + 1

\* debouncedRender: clearTimeout(renderTimer); renderTimer = setTimeout(...).
debouncedRender ==
  /\ renderTimer' = TRUE
  /\ pending' = (IF renderTimer THEN pending - 1 ELSE pending) + 1

\* The text as the value of a textarea and the document of CodeMirror hold
\* it: every "\r\n" and every other "\r" is a "\n".
RECURSIVE normalizeNewlines(_)
normalizeNewlines(s) ==
  IF \A k \in 1..Len(s) : s[k] # "\r" THEN s
  ELSE IF s[1] = "\r"
       THEN <<"\n">> \o normalizeNewlines(IF Len(s) > 1 /\ s[2] = "\n" THEN Tail(Tail(s))
                                                                     ELSE Tail(s))
       ELSE <<s[1]>> \o normalizeNewlines(Tail(s))

\* syncFallbackTextarea(), and the value given to a new textarea: setting
\* the value to another text puts the cursor at its end.
syncFallbackTextarea(text) ==
  /\ value' = normalizeNewlines(text)
  /\ selStart' = IF value' = value THEN selStart ELSE Len(value')
  /\ selEnd' = IF value' = value THEN selEnd ELSE Len(value')

\* The textarea is removed, or there is none.
removeFallbackTextarea ==
  /\ value' = <<>>
  /\ selStart' = 0
  /\ selEnd' = 0

\* Editor.createEditor(editorContainer, initialDoc, onEditorUpdate): the
\* field of a new state is what create() of suggestionModeField returns.
createEditor(initialDoc) == <<[doc |-> normalizeNewlines(initialDoc), suggestionMode |-> FALSE]>>

\* view.state.doc.toString() of the CodeMirror view, the empty text when
\* there is no view.
EditorDoc == IF editorView = <<>> THEN <<>> ELSE editorView[1].doc

\* syncEditorFromState dispatches a transaction, and the update listener of
\* the view calls onEditorUpdate, when the document differs from the text.
editorUpdates(text) == Editor /\ editorView # <<>> /\ EditorDoc # text

\* syncEditorIfNeeded() with state.source = text. The transaction replaces
\* the whole document and carries the annotation the filter lets through;
\* onEditorUpdate then sets state.source to the document and calls
\* debouncedRender (it also marks the document dirty: see editorUpdates).
syncEditorIfNeeded(text) ==
  IF Editor /\ editorView # <<>>
  THEN /\ editorView' = <<[editorView[1] EXCEPT !.doc = normalizeNewlines(text)]>>
       /\ UNCHANGED <<value, selStart, selEnd>>
       /\ IF editorUpdates(text)
          THEN source' = editorView'[1].doc /\ debouncedRender
          ELSE source' = text /\ UNCHANGED <<renderTimer, pending>>
  ELSE /\ syncFallbackTextarea(text)
       /\ source' = text
       /\ UNCHANGED <<editorView, renderTimer, pending>>

\* setupEditorPane() with state.source = text.
setupEditorPane(text) ==
  IF Editor /\ editorView = <<>>
  THEN /\ removeFallbackTextarea
       /\ editorView' = createEditor(text)
       /\ source' = text
       /\ UNCHANGED <<renderTimer, pending>>
  ELSE syncEditorIfNeeded(text)

\* render(): the primed display variables from the source src.
render(src) ==
  LET regs == findCriticRegions(src) IN
  /\ mdCalls' = mdRenderCalls(src, regs)
  /\ view' = renderedView(regs)

(***************************************************************************)
(* Spec: the application. A text is typed into the drop zone's input area  *)
(* and loaded; then regions are resolved one by one with the buttons of    *)
(* the rendered view, or all at once with Accept All / Reject All.         *)
(***************************************************************************)
AppModes == {"short", "stray"}

Init ==
  /\ input = <<>>
  /\ mode \in AppModes
  /\ ntok = 0
  /\ open = <<>>
  /\ typed = <<>>
  /\ phase = "typing"
  /\ scanned = <<>>
  /\ accepted = <<>>
  /\ rejected = <<>>
  /\ AppIdle

\* loadContent(text) for a document named document.md: confirmed is the
\* answer to the question whether the autosaved version is to be restored,
\* asked when there is one and it differs from the text.
loadText(text, confirmed) ==
  /\ pc = "idle"
  /\ confirmed => stored # <<>> /\ stored[1] # text
  /\ setupEditorPane(IF confirmed THEN stored[1] ELSE text)
  /\ render(source')
  /\ phase' = "loaded"
  /\ last' = [NoOp EXCEPT !.op = "loadContent", !.prev = last.op]
  /\ dirty' = FALSE
  /\ UNCHANGED <<input, mode, ntok, open, typed, scanned, accepted, rejected, pc, regions, passes,
                 suggestionModeActive, nedits, keys, suggestionApplying, lastFallbackSelection,
                 currentLayout, stored, Editor>>

\* Ctrl/Cmd+Enter in the input area: loadContent(inputArea.value), with no
\* autosaved version of the document restored.
loadContent ==
  /\ phase = "typing" /\ open = <<>>
  /\ input # <<>>
  /\ loadText(input, FALSE)

\* A plausible slip: the regions are resolved from the first to the last,
\* each at the offsets of the scan.
RECURSIVE resolveForwardFrom(_, _, _, _, _)
resolveForwardFrom(src, regs, k, i, accept) ==
  IF k > i THEN src
  ELSE LET r == regs[k + 1]
           resolved == IF accept THEN acceptMarkup(r.fullMarkup) ELSE rejectMarkup(r.fullMarkup)
       IN resolveForwardFrom(slice(src, 0, r.start) \o resolved \o sliceFrom(src, r.end),
                             regs, k + 1, i, accept)

resolvePassForward(src, regs, i, accept) == resolveForwardFrom(src, regs, 0, i, accept)

\* A plausible slip: the loop body leaves after the first region it
\* resolves, the last one of the scan.
resolvePassLastOnly(src, regs, i, accept) ==
  IF i < 0 THEN src
  ELSE LET r == regs[i + 1]
           resolved == IF accept THEN acceptMarkup(r.fullMarkup) ELSE rejectMarkup(r.fullMarkup)
       IN slice(src, 0, r.start) \o resolved \o sliceFrom(src, r.end)

\* One iteration of the while loop of acceptAll / rejectAll: the regions of
\* the scan are resolved from the last to the first.
RECURSIVE resolvePass(_, _, _, _)
resolvePass(src, regs, i, accept) ==
  IF i < 0 THEN src
  ELSE LET r == regs[i + 1]
           resolved == IF accept THEN acceptMarkup(r.fullMarkup) ELSE rejectMarkup(r.fullMarkup)
       IN resolvePass(slice(src, 0, r.start) \o resolved \o sliceFrom(src, r.end),
                      regs, i - 1, accept)

\* A plausible slip: `if` for `while`, the loop body runs at most once.
loopContinuesOnce(regs) == Len(regs) > 0 /\ passes = 0

\* The condition of the while loop.
loopContinues(regs) == Len(regs) > 0

\* acceptAll(): the click, up to the first evaluation of the loop condition.
acceptAllBegin ==
  /\ phase = "loaded" /\ pc = "idle"
  /\ pc' = "acceptAll"
  /\ regions' = findCriticRegions(source)
  /\ passes' = 0
  /\ last' = [NoOp EXCEPT !.op = "acceptAll", !.prev = last.op, !.before = source]
  /\ UNCHANGED <<scanVars, source, mdCalls, view, editVars>>

\* One iteration of the loop and the next evaluation of its condition.
acceptAllPass ==
  /\ pc = "acceptAll"
  /\ loopContinues(regions)
  /\ source' = resolvePass(source, regions, Len(regions) - 1, TRUE)
  /\ regions' = findCriticRegions(source')
  /\ passes' = passes + 1
  /\ UNCHANGED <<scanVars, pc, mdCalls, view, last, editVars>>

\* The loop has ended: render(); syncEditorIfNeeded().
acceptAllEnd ==
  /\ pc = "acceptAll"
  /\ ~loopContinues(regions)
  /\ render(source)
  /\ syncEditorIfNeeded(source)
  /\ dirty' = IF editorUpdates(source) THEN TRUE ELSE dirty
  /\ pc' = "idle"
  /\ UNCHANGED <<scanVars, regions, passes, last, suggestionModeActive, nedits, keys,
                 suggestionApplying, lastFallbackSelection, currentLayout, stored, Editor>>

\* rejectAll(): the click, up to the first evaluation of the loop condition.
rejectAllBegin ==
  /\ phase = "loaded" /\ pc = "idle"
  /\ pc' = "rejectAll"
  /\ regions' = findCriticRegions(source)
  /\ passes' = 0
  /\ last' = [NoOp EXCEPT !.op = "rejectAll", !.prev = last.op, !.before = source]
  /\ UNCHANGED <<scanVars, source, mdCalls, view, editVars>>

\* One iteration of the loop and the next evaluation of its condition.
rejectAllPass ==
  /\ pc = "rejectAll"
  /\ loopContinues(regions)
  /\ source' = resolvePass(source, regions, Len(regions) - 1, FALSE)
  /\ regions' = findCriticRegions(source')
  /\ passes' = passes + 1
  /\ UNCHANGED <<scanVars, pc, mdCalls, view, last, editVars>>

\* The loop has ended: render(); syncEditorIfNeeded().
rejectAllEnd ==
  /\ pc = "rejectAll"
  /\ ~loopContinues(regions)
  /\ render(source)
  /\ syncEditorIfNeeded(source)
  /\ dirty' = IF editorUpdates(source) THEN TRUE ELSE dirty
  /\ pc' = "idle"
  /\ UNCHANGED <<scanVars, regions, passes, last, suggestionModeActive, nedits, keys,
                 suggestionApplying, lastFallbackSelection, currentLayout, stored, Editor>>

\* The chain of replacements handleAcceptReject applies to data-markup.
unescapeMarkup(s) ==
  replaceAll(replaceAll(replaceAll(replaceAll(s, Amp, <<"&">>), Quot, <<"\"">>), Lt, <<"<">>),
             Gt, <<">">>)

\* A plausible slip: the recorded offset is ignored, the first occurrence
\* of the markup is always the one replaced.
replaceRecordedFirst(src, markup, offset, replacement) ==
  LET idx == indexOf(src, markup) IN
  IF idx # -1
    THEN slice(src, 0, idx) \o replacement \o sliceFrom(src, idx + Len(markup))
    ELSE src

\* A plausible slip: when the markup is not found, the replacement is
\* spliced in at the recorded offset all the same.
replaceRecordedAnyway(src, markup, offset, replacement) ==
  LET idx == indexOf(src, markup) IN
  IF substr(src, offset, Len(markup)) = markup \/ idx = -1
    THEN slice(src, 0, offset) \o replacement \o sliceFrom(src, offset + Len(markup))
    ELSE slice(src, 0, idx) \o replacement \o sliceFrom(src, idx + Len(markup))

\* The replacement of handleAcceptReject: in place when the text at the
\* recorded offset is the recorded markup, else at the first occurrence of
\* the markup, else nowhere.
replaceRecorded(src, markup, offset, replacement) ==
  LET idx == indexOf(src, markup) IN
  IF substr(src, offset, Len(markup)) = markup
    THEN slice(src, 0, offset) \o replacement \o sliceFrom(src, offset + Len(markup))
  ELSE IF idx # -1
    THEN slice(src, 0, idx) \o replacement \o sliceFrom(src, idx + Len(markup))
  ELSE src

\* A click on the accept or reject button of the n-th region of the view.
handleAcceptReject(n, accept) ==
  /\ phase = "loaded" /\ pc = "idle"
  /\ n \in 1..Len(view)
  /\ LET markup == unescapeMarkup(view[n].markup)
         offset == parseInt(view[n].offset)
         replacement == IF accept THEN acceptMarkup(markup) ELSE rejectMarkup(markup)
         replaced == replaceRecorded(source, markup, offset, replacement)
     IN /\ render(replaced)
        /\ syncEditorIfNeeded(replaced)
        /\ last' = [op |-> "handleAcceptReject", prev |-> last.op, before |-> source,
                    type |-> view[n].type, markup |-> markup, offset |-> offset,
                    accept |-> accept]
  /\ dirty' = TRUE
  /\ UNCHANGED <<scanVars, pc, regions, passes, suggestionModeActive, nedits, keys,
                 suggestionApplying, lastFallbackSelection, currentLayout, stored, Editor>>

Next ==
  \/ \E t \in StrayTokens : TypeToken(t)
  \/ \E p \in PlainTokens : TypePlain(p)
  \/ \E k \in Kinds : TypeOpen(k)
  \/ TypeClose
  \/ loadContent
  \/ acceptAllBegin
  \/ acceptAllPass
  \/ acceptAllEnd
  \/ rejectAllBegin
  \/ rejectAllPass
  \/ rejectAllEnd
  \/ \E n \in 1..Len(view), accept \in BOOLEAN : handleAcceptReject(n, accept)

Spec == Init /\ [][Next]_vars

(***************************************************************************)
(* SpecClick: a loaded document is edited in the editor with suggestion    *)
(* mode off; the rendered view follows after the delay of debouncedRender, *)
(* and until then its buttons carry the markup and the offsets of the      *)
(* document as it was.                                                     *)
(***************************************************************************)
\* trackSelection, run by the 'select', 'keyup' and 'mouseup' events that
\* follow what the user did in the textarea.
trackSelection ==
  lastFallbackSelection' = [start |-> selStart', end |-> selEnd']

\* The 'input' handler of the editor: the text is newValue, the cursor at
\* caret.  state.source = value; Autosave.markDirty(); debouncedRender().
inputEvent(newValue, caret) ==
  /\ value' = newValue
  /\ selStart' = caret
  /\ selEnd' = caret
  /\ source' = newValue
  /\ dirty' = TRUE
  /\ debouncedRender
  /\ nedits' = nedits + 1
  /\ last' = [NoOp EXCEPT !.op = "input", !.prev = last.op, !.before = source]

\* The user types the character c at offset p of the editor.
typeInEditor(p, c) ==
  /\ phase = "loaded" /\ pc = "idle" /\ ~suggestionModeActive
  /\ nedits < MaxEdits
  /\ p \in 0..Len(value)
  /\ inputEvent(SubSeq(value, 1, p) \o <<c>> \o SubSeq(value, p + 1, Len(value)), p + 1)
  /\ trackSelection
  /\ UNCHANGED <<scanVars, pc, regions, passes, mdCalls, view, suggestionModeActive, keys,
                 suggestionApplying, currentLayout, stored, Editor, editorView>>

\* The user deletes the character before offset p of the editor.
deleteInEditor(p) ==
  /\ phase = "loaded" /\ pc = "idle" /\ ~suggestionModeActive
  /\ nedits < MaxEdits
  /\ p \in 1..Len(value)
  /\ inputEvent(SubSeq(value, 1, p - 1) \o SubSeq(value, p + 1, Len(value)), p - 1)
  /\ trackSelection
  /\ UNCHANGED <<scanVars, pc, regions, passes, mdCalls, view, suggestionModeActive, keys,
                 suggestionApplying, currentLayout, stored, Editor, editorView>>

\* The timer of debouncedRender fires: render().
renderTimerFires ==
  /\ pending > 0
  /\ pc = "idle"
  /\ render(source)
  /\ pending' = pending - 1
  /\ renderTimer' = (pending' > 0)
  /\ UNCHANGED <<scanVars, source, pc, regions, passes, last, value, selStart, selEnd,
                 suggestionModeActive, dirty, nedits, keys, suggestionApplying,
                 lastFallbackSelection, currentLayout, stored, Editor, editorView>>

ClickInit ==
  /\ input = <<>>
  /\ mode = "click"
  /\ ntok = 0
  /\ open = <<>>
  /\ typed = <<>>
  /\ phase = "typing"
  /\ scanned = <<>>
  /\ accepted = <<>>
  /\ rejected = <<>>
  /\ AppIdle

MaxDocLen == 3 * MaxClickTokens + MaxEdits

ClickNext ==
  \/ \E t \in ClickTokens : TypeToken(t)
  \/ loadContent
  \/ \E p \in 0..MaxDocLen : typeInEditor(p, "a")
  \/ \E p \in 0..MaxDocLen : deleteInEditor(p)
  \/ renderTimerFires
  \/ \E n \in 1..Len(view), accept \in BOOLEAN : handleAcceptReject(n, accept)

SpecClick == ClickInit /\ [][ClickNext]_vars

(***************************************************************************)
(* SpecSuggest: a loaded document is edited in the fallback textarea with  *)
(* suggestion mode on or off.  The user places the selection, then presses *)
(* keys; each key is one 'beforeinput' event, handled to its end: the      *)
(* rewritten or the native edit, the 'input' event it fires, the cursor.   *)
(***************************************************************************)
\* Number of characters isInsideMarkup looks back from the position.
LookBack == 500

\* A plausible slip: an opener counts as unclosed only when no closer of its
\* kind precedes the position at all.
isInsideMarkupNoCloser(text, pos) ==
  LET chunk == substring(text, IF pos - LookBack > 0 THEN pos - LookBack ELSE 0, pos)
      unclosed(k) ==
        LET lo == lastIndexOf(chunk, OpenerOf(k))
            lc == lastIndexOf(chunk, CloserOf(k))
        IN  lo # -1 /\ lc = -1
  IN  \/ unclosed("addition")
      \/ unclosed("deletion")
      \/ unclosed("substitution")
      \/ unclosed("comment")

\* A plausible slip: the test left out, every position taken to be outside.
isInsideMarkupNever(text, pos) == FALSE

\* A plausible slip: the whole text before the position searched, with no
\* look-back limit.
isInsideMarkupNoWindow(text, pos) ==
  LET chunk == substring(text, 0, pos)
      unclosed(k) ==
        LET lo == lastIndexOf(chunk, OpenerOf(k))
            lc == lastIndexOf(chunk, CloserOf(k))
        IN  lo # -1 /\ (lc = -1 \/ lo > lc)
  IN  \/ unclosed("addition")
      \/ unclosed("deletion")
      \/ unclosed("substitution")
      \/ unclosed("comment")

\* Whether pos lies after an opener of an addition, a deletion, a
\* substitution or a comment that no closer of its kind follows, within the
\* LookBack characters before pos.
isInsideMarkup(text, pos) ==
  LET chunk == substring(text, IF pos - LookBack > 0 THEN pos - LookBack ELSE 0, pos)
      unclosed(k) ==
        LET lo == lastIndexOf(chunk, OpenerOf(k))
            lc == lastIndexOf(chunk, CloserOf(k))
        IN  lo # -1 /\ (lc = -1 \/ lo > lc)
  IN  \/ unclosed("addition")
      \/ unclosed("deletion")
      \/ unclosed("substitution")
      \/ unclosed("comment")

\* A plausible slip: the new text first, the old text second.
wrapSubstitutionSwapped(selected, data) ==
  OpenerOf("substitution") \o data \o Separator \o selected \o CloserOf("substitution")

\* '{~~' + selected + '~>' + data + '~~}'
wrapSubstitution(selected, data) ==
  OpenerOf("substitution") \o selected \o Separator \o data \o CloserOf("substitution")

\* '{++' + data + '++}'
wrapAddition(data) == OpenerOf("addition") \o data \o CloserOf("addition")

\* A plausible slip: the deleted text dropped from the markup.
wrapDeletionEmpty(selected) == OpenerOf("deletion") \o CloserOf("deletion")

\* '{--' + selected + '--}'
wrapDeletion(selected) == OpenerOf("deletion") \o selected \o CloserOf("deletion")

\* The text with the characters from offset a up to offset b replaced by t.
spliced(text, a, b, t) == SubSeq(text, 1, a) \o t \o SubSeq(text, b + 1, Len(text))

\* A plausible slip: the handler tests the mode only.
returnsAtOnceUnguarded(applying) == ~suggestionModeActive

\* The first test of the 'beforeinput' handler, with suggestionApplying as
\* given: whether the handler leaves the event to the textarea at once.
returnsAtOnce(applying) == ~suggestionModeActive \/ applying

\* The text that execCommand('insertText', false, text) puts in place of the
\* selection from rs up to re of val.  The command fires 'beforeinput' with
\* inputType insertText and data text, and the handler runs on that event as
\* on any other: where it does not return it cancels the event and commits
\* its own rewriting in turn (one level of that is followed here).
execCommandInsertText(applying, val, rs, re, text) ==
  IF returnsAtOnce(applying) \/ isInsideMarkup(val, rs) THEN text
  ELSE IF rs < re THEN wrapSubstitution(substring(val, rs, re), text)
  ELSE wrapAddition(text)

\* A plausible slip: the cursor left where execCommand puts it, after the
\* inserted text.
suggestionExecCursorAfter(replaceStart, replaceEnd, text, cursorPos) ==
  /\ inputEvent(spliced(value, replaceStart, replaceEnd,
                        execCommandInsertText(TRUE, value, replaceStart, replaceEnd, text)),
                replaceStart + Len(text))
  /\ suggestionApplying' = FALSE

\* suggestionExec: suggestionApplying is set, the range is selected and
\* replaced through execCommand('insertText'), whose 'input' event runs the
\* 'input' handler; then the cursor is put at cursorPos and
\* suggestionApplying is cleared.
suggestionExec(replaceStart, replaceEnd, text, cursorPos) ==
  /\ inputEvent(spliced(value, replaceStart, replaceEnd,
                        execCommandInsertText(TRUE, value, replaceStart, replaceEnd, text)),
                cursorPos)
  /\ suggestionApplying' = FALSE

\* suggestionExec when execCommand throws: suggestionApplying is set and the
\* range selected, and the two statements after the command are not reached.
suggestionExecThrows(replaceStart, replaceEnd, text, cursorPos) ==
  /\ suggestionApplying' = TRUE
  /\ selStart' = replaceStart
  /\ selEnd' = replaceEnd
  /\ UNCHANGED <<value, source, dirty, renderTimer, pending, nedits, last>>

\* The call of suggestionExec in the 'beforeinput' handler, which returns
\* or is left by the exception of execCommand.
callSuggestionExec(throws, replaceStart, replaceEnd, text, cursorPos) ==
  IF throws THEN suggestionExecThrows(replaceStart, replaceEnd, text, cursorPos)
            ELSE suggestionExec(replaceStart, replaceEnd, text, cursorPos)

\* The event is cancelled, or has nothing to act on: no 'input' event.
noInput ==
  UNCHANGED <<value, selStart, selEnd, source, dirty, renderTimer, pending, nedits, last,
              suggestionApplying>>

InsertTypes == {"insertText", "insertFromPaste", "insertFromDrop"}

\* What the Enter key inserts.
LineBreak == <<"\n">>

\* What the textarea does with an event the handler does not cancel: text
\* or a line break replaces the selection, a deletion or a cut removes it, a
\* deletion with no selection removes the character next to the cursor.
nativeEdit(type, data) ==
  /\ UNCHANGED suggestionApplying
  /\ IF type \in InsertTypes
       THEN inputEvent(spliced(value, selStart, selEnd, data), selStart + Len(data))
       ELSE IF type = "insertLineBreak"
       THEN inputEvent(spliced(value, selStart, selEnd, LineBreak), selStart + 1)
       ELSE IF selStart < selEnd
       THEN inputEvent(spliced(value, selStart, selEnd, <<>>), selStart)
       ELSE IF type = "deleteByCut" THEN noInput
       ELSE IF type = "deleteContentBackward"
       THEN IF selStart > 0
            THEN inputEvent(spliced(value, selStart - 1, selStart, <<>>), selStart - 1)
            ELSE noInput
       ELSE IF selStart < Len(value)
            THEN inputEvent(spliced(value, selStart, selStart + 1, <<>>), selStart)
            ELSE noInput

\* The 'beforeinput' handler of the fallback textarea, for an event of the
\* given inputType and data, and what follows from it; throws tells how the
\* call of suggestionExec ends.
onBeforeInput(type, data, throws) ==
  /\ phase = "loaded" /\ pc = "idle"
  /\ Len(keys) < MaxKeys
  /\ keys' = Append(keys, [inputType |-> type, data |-> data, val |-> value,
                           selStart |-> selStart, selEnd |-> selEnd,
                           active |-> suggestionModeActive])
  /\ LET val == value
         selected == substring(val, selStart, selEnd)
     IN  IF returnsAtOnce(suggestionApplying) THEN nativeEdit(type, data)
         ELSE IF isInsideMarkup(val, selStart) THEN nativeEdit(type, data)
         ELSE IF type \in InsertTypes
         THEN IF selected # <<>>
              THEN LET wrapped == wrapSubstitution(selected, data)
                   IN  callSuggestionExec(throws, selStart, selEnd, wrapped, selStart + Len(wrapped))
              ELSE LET wrapped == wrapAddition(data)
                   IN  callSuggestionExec(throws, selStart, selEnd, wrapped, selStart + 3 + Len(data))
         ELSE IF type = "deleteContentBackward"
         THEN IF selected # <<>>
              THEN LET wrapped == wrapDeletion(selected)
                   IN  callSuggestionExec(throws, selStart, selEnd, wrapped, selStart + Len(wrapped))
              ELSE IF selStart > 0
              THEN LET wrapped == wrapDeletion(substring(val, selStart - 1, selStart))
                   IN  callSuggestionExec(throws, selStart - 1, selStart, wrapped,
                                          selStart - 1 + Len(wrapped))
              ELSE noInput
         ELSE IF type = "deleteContentForward"
         THEN IF selected # <<>>
              THEN LET wrapped == wrapDeletion(selected)
                   IN  callSuggestionExec(throws, selStart, selEnd, wrapped, selStart + Len(wrapped))
              ELSE IF selStart < Len(val)
              THEN LET wrapped == wrapDeletion(substring(val, selStart, selStart + 1))
                   IN  callSuggestionExec(throws, selStart, selStart + 1, wrapped,
                                          selStart + Len(wrapped))
              ELSE noInput
         ELSE nativeEdit(type, data)
  /\ trackSelection
  /\ UNCHANGED <<scanVars, pc, regions, passes, mdCalls, view, suggestionModeActive,
                 currentLayout, stored, Editor, editorView>>

\* A 'beforeinput' event of the textarea whose handler runs to its end.
beforeinput(type, data) == onBeforeInput(type, data, FALSE)

\* A 'beforeinput' event of the textarea whose handler calls suggestionExec,
\* where execCommand throws.
beforeinputThrows(type, data) ==
  /\ ~suggestionApplying
  /\ onBeforeInput(type, data, TRUE)
  /\ suggestionApplying'

\* The user places the selection of the textarea, in the document as
\* loaded and before the first key.
select(a, b) ==
  /\ phase = "loaded" /\ pc = "idle"
  /\ keys = <<>> /\ last.op = "loadContent"
  /\ a \in 0..Len(value) /\ b \in a..Len(value)
  /\ <<a, b>> # <<selStart, selEnd>>
  /\ selStart' = a
  /\ selEnd' = b
  /\ trackSelection
  /\ UNCHANGED <<scanVars, appVars, value, suggestionModeActive, renderTimer, dirty, nedits,
                 keys, suggestionApplying, pending, currentLayout, stored, Editor, editorView>>

\* The click handler of the suggestion mode button: it returns at once in
\* the preview-only layout; with a CodeMirror view it flips the field of the
\* view and sets the flag to the new value, with the fallback textarea it
\* flips the flag. Clicked before the first key.
toggleSuggestionMode ==
  /\ phase = "loaded" /\ pc = "idle"
  /\ keys = <<>> /\ last.op = "loadContent"
  /\ IF currentLayout = "preview-only"
     THEN UNCHANGED <<suggestionModeActive, editorView>>
     ELSE IF Editor /\ editorView # <<>>
     THEN LET current == editorView[1].suggestionMode
          IN  /\ editorView' = <<[editorView[1] EXCEPT !.suggestionMode = ~current]>>
              /\ suggestionModeActive' = ~current
     ELSE /\ suggestionModeActive' = ~suggestionModeActive
          /\ UNCHANGED editorView
  /\ UNCHANGED <<scanVars, appVars, value, selStart, selEnd, renderTimer, dirty, nedits, keys,
                 suggestionApplying, pending, lastFallbackSelection, currentLayout, stored,
                 Editor>>

\* suggestionFilter of the CodeMirror editor, for a transaction of one change
\* that replaces the characters from fromA up to toA by insertedText: the
\* document the transaction it returns leads to.  (isInsideMarkup of
\* editor.js makes the same test as the one of app.js, and reports the kind.)
suggestionFilter(active, doc, fromA, toA, insertedText) ==
  LET deletedText == substring(doc, fromA, toA)
  IN  IF ~active THEN spliced(doc, fromA, toA, insertedText)
      ELSE IF isInsideMarkup(doc, fromA) THEN spliced(doc, fromA, toA, insertedText)
      ELSE IF deletedText # <<>> /\ insertedText # <<>>
      THEN spliced(doc, fromA, toA, wrapSubstitution(deletedText, insertedText))
      ELSE IF insertedText # <<>>
      THEN spliced(doc, fromA, toA, wrapAddition(insertedText))
      ELSE IF deletedText # <<>>
      THEN spliced(doc, fromA, toA, wrapDeletion(deletedText))
      ELSE doc

SuggestInit ==
  /\ input = <<>>
  /\ mode = "edit"
  /\ ntok = 0
  /\ open = <<>>
  /\ typed = <<>>
  /\ phase = "typing"
  /\ scanned = <<>>
  /\ accepted = <<>>
  /\ rejected = <<>>
  /\ AppIdle

\* The characters typed in the editor.
KeyChars == {"X", "}"}

SuggestNext ==
  \/ \E t \in EditTokens : TypeToken(t)
  \/ loadContent
  \/ toggleSuggestionMode
  \/ \E a \in 0..Len(value), b \in 0..Len(value) : select(a, b)
  \/ \E c \in KeyChars : beforeinput("insertText", <<c>>)
  \/ beforeinput("deleteContentBackward", <<>>)
  \/ beforeinput("deleteContentForward", <<>>)

SpecSuggest == SuggestInit /\ [][SuggestNext]_vars

(***************************************************************************)
(* SpecInside: isInsideMarkup as a pure function, applied to texts long    *)
(* enough for its look-back to end inside them: at most MaxWindowTokens    *)
(* pieces and one run of PadLen plain characters, inspected at one of the  *)
(* last positions of the text.                                             *)
(***************************************************************************)
WindowTokens == { OpenerOf("addition"), CloserOf("addition"), OpenerOf("highlight"), <<"a">> }

\* A run of PadLen plain characters is typed, once.
TypePad ==
  /\ phase = "typing" /\ mode = "window"
  /\ typed = <<>>
  /\ input' = input \o [i \in 1..PadLen |-> "a"]
  /\ typed' = <<[start |-> Len(input), end |-> Len(input) + PadLen, type |-> "pad",
                 depth |-> 0]>>
  /\ UNCHANGED <<mode, ntok, open, phase, scanned, accepted, rejected, appVars, editVars>>

\* isInsideMarkup(text, pos) for the text typed and a position pos of it.
Inspect(pos) ==
  /\ phase = "typing" /\ mode = "window"
  /\ pos \in 0..Len(input)
  /\ Len(input) - pos <= MaxTail
  /\ scanned' = <<[pos |-> pos, inside |-> isInsideMarkup(input, pos)]>>
  /\ phase' = "inspected"
  /\ UNCHANGED <<input, mode, ntok, open, typed, accepted, rejected, appVars, editVars>>

InsideInit ==
  /\ input = <<>>
  /\ mode = "window"
  /\ ntok = 0
  /\ open = <<>>
  /\ typed = <<>>
  /\ phase = "typing"
  /\ scanned = <<>>
  /\ accepted = <<>>
  /\ rejected = <<>>
  /\ AppIdle

InsideNext ==
  \/ \E t \in WindowTokens : TypeToken(t)
  \/ TypePad
  \/ \E back \in 0..MaxTail : Inspect(Len(input) - back)

SpecInside == InsideInit /\ [][InsideNext]_vars

(***************************************************************************)
(* SpecSep: findTopLevelSeparator as a pure function, applied to the texts *)
(* of at most MaxSepTokens pieces among the delimiters of additions and    *)
(* substitutions, the separator and a plain character.                     *)
(***************************************************************************)
\* findTopLevelSeparator(content) for the text typed.
Separate ==
  /\ phase = "typing" /\ mode = "sep"
  /\ scanned' = <<[sep |-> findTopLevelSeparator(input)]>>
  /\ phase' = "separated"
  /\ UNCHANGED <<input, mode, ntok, open, typed, accepted, rejected, appVars, editVars>>

SepInit ==
  /\ input = <<>>
  /\ mode = "sep"
  /\ ntok = 0
  /\ open = <<>>
  /\ typed = <<>>
  /\ phase = "typing"
  /\ scanned = <<>>
  /\ accepted = <<>>
  /\ rejected = <<>>
  /\ AppIdle

SepNext ==
  \/ \E t \in SepTokens : TypeToken(t)
  \/ Separate

SpecSep == SepInit /\ [][SepNext]_vars

(***************************************************************************)
(* SpecGuard: the edits that reach the editor without being the user's own *)
(* typing.  In the fallback textarea the handler's own commit, which may   *)
(* throw, the programmatic assignment after an accept or a reject, and the *)
(* comment button; in the CodeMirror editor the transactions dispatched    *)
(* with the suggestionProcessed annotation.                                *)
(***************************************************************************)
\* view.dispatch of a transaction of one change, with the annotation
\* suggestionProcessed as given: the document it leads to.  The transaction
\* filter passes an annotated transaction through.
dispatch(processed, active, doc, fromA, toA, insertedText) ==
  IF processed THEN spliced(doc, fromA, toA, insertedText)
  ELSE suggestionFilter(active, doc, fromA, toA, insertedText)

\* syncEditorFromState(view, newDoc): the document of the editor afterwards.
syncEditorFromState(active, doc, newDoc) ==
  IF doc = newDoc THEN doc ELSE dispatch(TRUE, active, doc, 0, Len(doc), newDoc)

\* '{>>' + commentText + '<<}'
commentInsertion(commentText) == OpenerOf("comment") \o commentText \o CloserOf("comment")

\* addCommentCommand(view), with the selection of the editor from `from` up
\* to `to` and commentText the answer to the prompt: the document afterwards.
addCommentCommand(active, doc, from, to, commentText) ==
  IF from = to THEN doc
  ELSE dispatch(TRUE, active, doc, to, to, commentInsertion(commentText))

\* A plausible slip: the comment is put before the selection.
addCommentAt(selectionStart, selectionEnd) == selectionStart

\* The offset at which the click handler of the comment button inserts.
addCommentAfter(selectionStart, selectionEnd) == selectionEnd

\* The texts answered to the prompt.
CommentTexts == { <<>>, <<"c">> }

\* The number of comment openers in the text s.
RECURSIVE commentsIn(_)
commentsIn(s) ==
  IF Len(s) < 3 THEN 0
  ELSE (IF SubSeq(s, 1, 3) = OpenerOf("comment") THEN 1 ELSE 0) + commentsIn(Tail(s))

\* The click handler of the comment button with the fallback textarea as
\* the editor, in a document with no comment yet; commentText is the answer
\* to the prompt.  Assigning the cursor may or may not fire a 'select' event
\* (tracked).
addComment(commentText, tracked) ==
  /\ phase = "loaded" /\ pc = "idle"
  /\ lastFallbackSelection.start # lastFallbackSelection.end
  /\ commentsIn(value) = 0
  /\ LET at == addCommentAfter(lastFallbackSelection.start, lastFallbackSelection.end)
         insertion == commentInsertion(commentText)
         newValue == substring(value, 0, at) \o insertion \o substring(value, at, Len(value))
         cursor == IF at + Len(insertion) < Len(newValue) THEN at + Len(insertion)
                   ELSE Len(newValue)
     IN  /\ value' = newValue
         /\ selStart' = cursor
         /\ selEnd' = cursor
         /\ source' = newValue
         /\ last' = [op |-> "addComment", prev |-> last.op, before |-> value,
                     type |-> "comment", markup |-> commentText,
                     offset |-> lastFallbackSelection.end, accept |-> FALSE,
                     selStart |-> selStart, selEnd |-> selEnd]
  /\ dirty' = TRUE
  /\ render(source')
  /\ lastFallbackSelection' =
       IF tracked THEN [start |-> selStart', end |-> selEnd'] ELSE lastFallbackSelection
  /\ UNCHANGED <<scanVars, pc, regions, passes, suggestionModeActive, renderTimer, nedits, keys,
                 suggestionApplying, pending, currentLayout, stored, Editor, editorView>>

\* The click handler of the comment button, the prompt cancelled.
addCommentCancelled ==
  /\ phase = "loaded" /\ pc = "idle"
  /\ lastFallbackSelection.start # lastFallbackSelection.end
  /\ last' = [NoOp EXCEPT !.op = "addCommentCancelled", !.prev = last.op, !.before = value]
  /\ UNCHANGED <<scanVars, source, pc, regions, passes, mdCalls, view, editVars>>

\* The input types the handler rewrites.
HandledTypes == { "insertText", "deleteContentBackward", "deleteContentForward" }

\* The input types of the keys pressed.
KeyTypes == HandledTypes \cup { "insertLineBreak", "deleteByCut" }

\* The data of a 'beforeinput' event of the given type.
DataOf(type) == IF type = "insertText" THEN <<"X">> ELSE <<>>

GuardInit ==
  /\ input = <<>>
  /\ mode = "guard"
  /\ ntok = 0
  /\ open = <<>>
  /\ typed = <<>>
  /\ phase = "typing"
  /\ scanned = <<>>
  /\ accepted = <<>>
  /\ rejected = <<>>
  /\ AppIdle

GuardNext ==
  \/ \E t \in GuardTokens : TypeToken(t)
  \/ loadContent
  \/ toggleSuggestionMode
  \/ \E a \in 0..Len(value), b \in 0..Len(value) : select(a, b)
  \/ \E type \in HandledTypes : beforeinput(type, DataOf(type))
  \/ \E type \in HandledTypes : beforeinputThrows(type, DataOf(type))
  \/ \E n \in 1..Len(view), accept \in BOOLEAN : keys = <<>> /\ handleAcceptReject(n, accept)
  \/ \E c \in CommentTexts, tracked \in BOOLEAN : keys = <<>> /\ addComment(c, tracked)

SpecGuard == GuardInit /\ [][GuardNext]_vars

(***************************************************************************)
(* SpecKeys: the fallback textarea under every kind of edit: text typed,   *)
(* a line break, a closer pasted, a character deleted on either side of    *)
(* the cursor, the selection cut; with suggestion mode on or off.          *)
(***************************************************************************)
\* The text pasted.
Pasted == CloserOf("addition")

KeysNext ==
  \/ \E t \in GuardTokens : TypeToken(t)
  \/ loadContent
  \/ toggleSuggestionMode
  \/ \E a \in 0..Len(value), b \in 0..Len(value) : select(a, b)
  \/ \E type \in KeyTypes : beforeinput(type, DataOf(type))
  \/ beforeinput("insertFromPaste", Pasted)

SpecKeys == GuardInit /\ [][KeysNext]_vars

(***************************************************************************)
(* SpecLayout: the layout buttons and the suggestion mode button, with     *)
(* keys pressed in the textarea while the layout shows it.                 *)
(* SpecTimers: the timer of debouncedRender and the interval of Autosave,  *)
(* with keys pressed in the textarea, the buttons of the rendered view     *)
(* (clicked before the first key), Accept All and Reject All.              *)
(***************************************************************************)
Layouts == {"both", "editor-only", "preview-only"}

\* A plausible slip: the layout changes and suggestion mode stays as it is.
setLayoutKeepsMode(layout) ==
  /\ phase = "loaded" /\ pc = "idle"
  /\ currentLayout' = layout
  /\ IF layout # "editor-only" THEN render(source) ELSE UNCHANGED <<mdCalls, view>>
  /\ UNCHANGED <<scanVars, source, pc, regions, passes, last, value, selStart, selEnd,
                 suggestionModeActive, renderTimer, dirty, nedits, keys, suggestionApplying,
                 pending, lastFallbackSelection, stored, Editor, editorView>>

\* setLayout(mode), the click handler of the three layout buttons.
setLayout(layout) ==
  /\ phase = "loaded" /\ pc = "idle"
  /\ currentLayout' = layout
  /\ suggestionModeActive' = IF layout = "preview-only" THEN FALSE ELSE suggestionModeActive
  /\ editorView' = IF layout = "preview-only" /\ suggestionModeActive /\ Editor
                      /\ editorView # <<>>
                   THEN <<[editorView[1] EXCEPT !.suggestionMode = FALSE]>>
                   ELSE editorView
  /\ IF layout # "editor-only" THEN render(source) ELSE UNCHANGED <<mdCalls, view>>
  /\ UNCHANGED <<scanVars, source, pc, regions, passes, last, value, selStart, selEnd,
                 renderTimer, dirty, nedits, keys, suggestionApplying, pending,
                 lastFallbackSelection, stored, Editor>>

\* The callback of the interval Autosave.start sets, every 3000 ms: the
\* source is stored when it is dirty and not empty.
autosaveTick ==
  /\ phase = "loaded" /\ pc = "idle"
  /\ IF dirty
     THEN /\ stored' = IF source # <<>> THEN <<source>> ELSE stored
          /\ dirty' = FALSE
     ELSE UNCHANGED <<stored, dirty>>
  /\ UNCHANGED <<scanVars, appVars, value, selStart, selEnd, suggestionModeActive, renderTimer,
                 nedits, keys, suggestionApplying, pending, lastFallbackSelection,
                 currentLayout, Editor, editorView>>

\* The keys reach the textarea while the layout shows it.
LayoutNext ==
  \/ \E t \in GuardTokens : TypeToken(t)
  \/ loadContent
  \/ toggleSuggestionMode
  \/ \E layout \in Layouts : setLayout(layout)
  \/ \E type \in {"insertText", "deleteContentBackward"} :
       currentLayout # "preview-only" /\ beforeinput(type, DataOf(type))

SpecLayout == GuardInit /\ [][LayoutNext]_vars

\* updateToolbar enables Accept All and Reject All while the rendered view
\* shows regions.
TimersNext ==
  \/ \E t \in GuardTokens : TypeToken(t)
  \/ loadContent
  \/ toggleSuggestionMode
  \/ \E type \in {"insertText", "deleteContentBackward"} : beforeinput(type, DataOf(type))
  \/ renderTimerFires
  \/ autosaveTick
  \/ view # <<>> /\ acceptAllBegin
  \/ acceptAllPass
  \/ acceptAllEnd
  \/ view # <<>> /\ rejectAllBegin
  \/ rejectAllPass
  \/ rejectAllEnd
  \/ \E n \in 1..Len(view), accept \in BOOLEAN : keys = <<>> /\ handleAcceptReject(n, accept)

SpecTimers == GuardInit /\ [][TimersNext]_vars

(***************************************************************************)
(* SpecHeading: the placeholder loop of render() on the texts of at most   *)
(* MaxHeadTokens pieces among the delimiters of additions and comments,    *)
(* `#`, a space, a line break and a plain character.                       *)
(***************************************************************************)
\* A text is about to be typed in the given way.
TypingIn(m) ==
  /\ input = <<>>
  /\ mode = m
  /\ ntok = 0
  /\ open = <<>>
  /\ typed = <<>>
  /\ phase = "typing"
  /\ scanned = <<>>
  /\ accepted = <<>>
  /\ rejected = <<>>
  /\ AppIdle

\* The regions array of render() after its first loop, each region with the
\* _headingPrefix the loop gave it (empty when it gave none).
placeholderRegions(src, regs) ==
  [k \in 1..Len(regs) |->
     [start |-> regs[k].start, end |-> regs[k].end, type |-> regs[k].type,
      fullMarkup |-> regs[k].fullMarkup, headingPrefix |-> headingPrefix(src, regs[k])]]

\* The scan and the first loop of render() with the text typed as the source.
Placeholders ==
  /\ phase = "typing" /\ mode = "heading"
  /\ scanned' = placeholderRegions(input, findCriticRegions(input))
  /\ mdCalls' = mdRenderCalls(input, findCriticRegions(input))
  /\ phase' = "placed"
  /\ UNCHANGED <<input, mode, ntok, open, typed, accepted, rejected, source, pc, regions, passes,
                 view, last, editVars>>

HeadingNext ==
  \/ \E t \in HeadTokens : TypeToken(t)
  \/ Placeholders

SpecHeading == TypingIn("heading") /\ [][HeadingNext]_vars


(***************************************************************************)
(* SpecInline: the inline rule of the markdown-it plugin and the scanner   *)
(* on the same texts, of at most MaxInlineTokens pieces among the          *)
(* delimiters of additions and substitutions, the separator and a plain    *)
(* character.                                                              *)
(***************************************************************************)
\* criticRule returns false: no token.
NoToken == [type |-> "null", markup |-> <<>>, offset |-> 0, content |-> <<>>, new |-> <<>>]

\* remaining.match(/^\{xx([\s\S]+?)yy\}/) for the opener at pos: the content
\* is the shortest text of one character or more that the closer follows.
\* The result is the offset after the match in src, or -1.
matchSimple(src, pos, closer) ==
  LET c == indexOfFrom(src, closer, pos + 4) IN
  IF c = -1 THEN -1 ELSE c + 3

\* remaining.match(RE_SUBSTITUTION): the offset of the `~>` taken as the
\* separator and the offset after the match in src, or -1 for both.
matchSubstitution(src, pos) ==
  LET sep == indexOfFrom(src, Separator, pos + 4)
      c   == IF sep = -1 THEN -1 ELSE indexOfFrom(src, CloserOf("substitution"), sep + 3)
  IN  IF c = -1 THEN [sep |-> -1, end |-> -1] ELSE [sep |-> sep, end |-> c + 3]

\* criticRule(state, silent) with silent false, at state.pos = pos of
\* state.src = src: the token pushed, or NoToken.
criticRule(src, pos) ==
  IF ~(pos < Len(src)) \/ src[pos + 1] # "{" THEN NoToken
  ELSE LET opener == detectCriticOpener(src, pos) IN
       IF opener.type = "null" THEN NoToken
       ELSE IF opener.type = "substitution"
       THEN LET m == matchSubstitution(src, pos) IN
            IF m.end = -1 THEN NoToken
            ELSE [type |-> "substitution", markup |-> substring(src, pos, m.end),
                  offset |-> pos, content |-> substring(src, pos + 3, m.sep),
                  new |-> substring(src, m.sep + 2, m.end - 3)]
       ELSE LET end == matchSimple(src, pos, opener.closer) IN
            IF end = -1 THEN NoToken
            ELSE [type |-> opener.type, markup |-> substring(src, pos, end),
                  offset |-> pos, content |-> substring(src, pos + 3, end - 3),
                  new |-> <<>>]

\* The tokens the inline parser of markdown-it gets from criticRule on src:
\* the rule is tried at every `{` the parser reaches, and a token moves the
\* parser to the end of its markup.
RECURSIVE inlineTokensFrom(_, _)
inlineTokensFrom(src, pos) ==
  IF ~(pos < Len(src)) THEN <<>>
  ELSE LET token == criticRule(src, pos) IN
       IF token.type = "null" THEN inlineTokensFrom(src, pos + 1)
       ELSE <<token>> \o inlineTokensFrom(src, pos + Len(token.markup))

inlineTokens(src) == inlineTokensFrom(src, 0)

\* The text typed is scanned by the scanner and parsed by the inline parser.
Inline ==
  /\ phase = "typing" /\ mode = "inline"
  /\ scanned' = findCriticRegions(input)
  /\ accepted' = inlineTokens(input)
  /\ phase' = "inlined"
  /\ UNCHANGED <<input, mode, ntok, open, typed, rejected, appVars, editVars>>

InlineNext ==
  \/ \E t \in InlineTokens : TypeToken(t)
  \/ Inline

SpecInline == TypingIn("inline") /\ [][InlineNext]_vars


(***************************************************************************)
(* SpecRestore: render() to the HTML of the rendered view, on the texts of *)
(* at most MaxRestoreTokens pieces among the delimiters of additions, `$`, *)
(* `&`, a plain character and the text of the first placeholder.  In the   *)
(* HTML the fixed pieces of markup are one element each; what comes from   *)
(* the document is there character by character.                           *)
(***************************************************************************)
\* The replacement string of String.prototype.replace with the `$`
\* patterns expanded: `$$`, `$&`, `` $` `` and `$'` (a string pattern has
\* no groups, so any other `$` stands for itself).
RECURSIVE expandReplacement(_, _, _, _)
expandReplacement(replacement, before, matched, after) ==
  IF replacement = <<>> THEN <<>>
  ELSE IF Head(replacement) = "$" /\ Len(replacement) >= 2
            /\ replacement[2] \in {"$", "&", "`", "'"}
    THEN (CASE replacement[2] = "$" -> <<"$">>
            [] replacement[2] = "&" -> matched
            [] replacement[2] = "`" -> before
            [] replacement[2] = "'" -> after)
         \o expandReplacement(SubSeq(replacement, 3, Len(replacement)), before, matched, after)
    ELSE <<Head(replacement)>> \o expandReplacement(Tail(replacement), before, matched, after)

\* str.replace(pattern, replacement) with a string pattern: the first
\* occurrence is replaced.
replaceFirst(str, pattern, replacement) ==
  LET i == indexOf(str, pattern) IN
  IF i = -1 THEN str
  ELSE LET before == substring(str, 0, i)
           after  == substring(str, i + Len(pattern), Len(str))
       IN  before \o expandReplacement(replacement, before, pattern, after) \o after

escapeDataAttr(str) ==
  replaceAll(replaceAll(replaceAll(replaceAll(str, <<"&">>, Amp), <<"\"">>, Quot), <<"<">>, Lt),
             <<">">>, Gt)

\* The opening tag up to the value of data-markup, and the controls.
spanOpen(type) ==
  CASE type = "addition"     -> <<"<span class=\"critic-addition\" data-markup=\"">>
    [] type = "deletion"     -> <<"<span class=\"critic-deletion\" data-markup=\"">>
    [] type = "substitution" -> <<"<span class=\"critic-substitution\" data-markup=\"">>
    [] type = "comment"      -> <<"<span class=\"critic-comment-marker\" data-markup=\"">>
    [] type = "highlight"    -> <<"<span class=\"critic-highlight\" data-markup=\"">>

controls(type) ==
  << "<span class=\"critic-controls\"><button class=\"critic-accept\" title=\"",
     CASE type = "addition" -> "Accept addition" [] type = "deletion" -> "Accept deletion"
       [] type = "substitution" -> "Accept change" [] type = "comment" -> "Remove comment"
       [] type = "highlight" -> "Accept highlight",
     "\">&#10003;</button><button class=\"critic-reject\" title=\"",
     CASE type = "addition" -> "Reject addition" [] type = "deletion" -> "Reject deletion"
       [] type = "substitution" -> "Reject change" [] type = "comment" -> "Remove comment"
       [] type = "highlight" -> "Reject highlight",
     "\">&#10005;</button></span>" >>

\* The element of a region: its attributes, its body and its controls.
element(type, markupAttr, offset, commentAttr, body) ==
  spanOpen(type) \o markupAttr \o <<"\" data-offset=\"">> \o toDecimal(offset)
    \o (IF type = "comment" THEN <<"\" data-comment-text=\"">> \o commentAttr ELSE <<>>)
    \o <<"\">">> \o body \o controls(type) \o <<"</span>">>

oldAndNew(oldHtml, newHtml) ==
  <<"<span class=\"critic-deletion\">">> \o oldHtml \o <<"</span>">>
    \o <<"<span class=\"critic-addition\">">> \o newHtml \o <<"</span>">>

\* md.renderInline(src) from the offset pos: a token of criticRule is
\* rendered by the rule of its kind (md.renderer.rules.critic_*), any other
\* character is escaped.
RECURSIVE renderInlineFrom(_, _)
renderInlineFrom(src, pos) ==
  IF ~(pos < Len(src)) THEN <<>>
  ELSE LET token == criticRule(src, pos) IN
       IF token.type = "null"
         THEN escapeHtml(<<src[pos + 1]>>) \o renderInlineFrom(src, pos + 1)
         ELSE element(token.type, escapeDataAttr(token.markup), token.offset,
                      escapeDataAttr(token.content),
                      CASE token.type \in {"addition", "highlight"} ->
                             renderInlineFrom(token.content, 0)
                        [] token.type = "deletion" -> escapeHtml(token.content)
                        [] token.type = "substitution" ->
                             oldAndNew(escapeHtml(token.content), renderInlineFrom(token.new, 0))
                        [] token.type = "comment" -> <<>>)
              \o renderInlineFrom(src, pos + Len(token.markup))

renderInline(src) == renderInlineFrom(src, 0)

\* md.render(src) for a text of one paragraph.
mdRender(src) == <<"<p>">> \o renderInline(src) \o <<"</p>\n">>

\* renderCriticRegion(region), with region._headingPrefix given apart.
renderCriticRegion(region, prefix) ==
  LET markupAttr == escapeHtml(region.fullMarkup)
      content == substring(region.fullMarkup, 3, Len(region.fullMarkup) - 3)
      displayContent == IF prefix # <<>>
                          THEN substring(trimNewlines(content), Len(prefix), Len(content))
                          ELSE content
      sep == findTopLevelSeparator(content)
      oldText == IF sep # -1 THEN substring(content, 0, sep) ELSE content
      newText == IF sep # -1 THEN substring(content, sep + 2, Len(content)) ELSE <<>>
  IN  element(region.type, markupAttr, region.start, escapeHtml(content),
              CASE region.type \in {"addition", "highlight"} -> renderInline(displayContent)
                [] region.type = "deletion" -> escapeHtml(displayContent)
                [] region.type = "substitution" ->
                     oldAndNew(escapeHtml(oldText), renderInline(newText))
                [] region.type = "comment" -> <<>>)

\* The second loop of render(): the placeholders replaced one by one.
RECURSIVE restoreFrom(_, _, _, _)
restoreFrom(html, src, regs, r) ==
  IF r >= Len(regs) THEN html
  ELSE restoreFrom(replaceFirst(html, placeholder(r),
                                renderCriticRegion(regs[r + 1], headingPrefix(src, regs[r + 1]))),
                   src, regs, r + 1)

\* renderedView.innerHTML after render() with the source src.
innerHTML(src) ==
  LET regs == findCriticRegions(src) IN
  IF Len(regs) = 0 THEN mdRender(src)
  ELSE restoreFrom(mdRender(processedFrom(src, regs, 0, 0)), src, regs, 0)

\* render() with the text typed as the source.
Restore ==
  /\ phase = "typing" /\ mode = "restore"
  /\ input # <<>>
  /\ scanned' = findCriticRegions(input)
  /\ mdCalls' = mdRenderCalls(input, findCriticRegions(input))
  /\ accepted' = innerHTML(input)
  /\ phase' = "restored"
  /\ UNCHANGED <<input, mode, ntok, open, typed, rejected, source, pc, regions, passes,
                 view, last, editVars>>

RestoreNext ==
  \/ \E t \in RestoreTokens : TypeToken(t)
  \/ Restore

SpecRestore == TypingIn("restore") /\ [][RestoreNext]_vars


(***************************************************************************)
(* SpecWork: the work of one scan, on the texts of at most MaxWorkTokens   *)
(* openers and closers of additions.                                       *)
(***************************************************************************)
\* The while loop of findCriticClose from i: the value returned, the calls
\* of findCriticClose made from the loop (those made by the calls
\* included) and the iterations of the loop (those of the calls included).
RECURSIVE findCriticCloseWork(_, _, _)
findCriticCloseWork(src, i, closer) ==
  IF ~(i <= Len(src) - 3) THEN [end |-> -1, calls |-> 0, steps |-> 0]
  ELSE IF substring(src, i, i + 3) = closer THEN [end |-> i + 3, calls |-> 0, steps |-> 1]
  ELSE IF src[i + 1] = "{" /\ detectCriticOpener(src, i).type # "null"
    THEN LET nested == findCriticCloseWork(src, i + 3, detectCriticOpener(src, i).closer)
             rest == findCriticCloseWork(src, IF nested.end # -1 THEN nested.end ELSE i + 1,
                                         closer)
         IN  [end |-> rest.end, calls |-> 1 + nested.calls + rest.calls,
              steps |-> 1 + nested.steps + rest.steps]
    ELSE LET rest == findCriticCloseWork(src, i + 1, closer)
         IN  [end |-> rest.end, calls |-> rest.calls, steps |-> 1 + rest.steps]

\* The while loop of findCriticRegions from i: the number of regions found,
\* the calls of findCriticClose and the iterations of the loops.
RECURSIVE findCriticRegionsWork(_, _)
findCriticRegionsWork(src, i) ==
  IF ~(i < Len(src)) THEN [found |-> 0, calls |-> 0, steps |-> 0]
  ELSE IF src[i + 1] = "{" /\ detectCriticOpener(src, i).type # "null"
    THEN LET close == findCriticCloseWork(src, i + 3, detectCriticOpener(src, i).closer)
             rest == findCriticRegionsWork(src, IF close.end # -1 THEN close.end ELSE i + 1)
         IN  [found |-> (IF close.end # -1 THEN 1 ELSE 0) + rest.found,
              calls |-> 1 + close.calls + rest.calls,
              steps |-> 1 + close.steps + rest.steps]
    ELSE LET rest == findCriticRegionsWork(src, i + 1)
         IN  [found |-> rest.found, calls |-> rest.calls, steps |-> 1 + rest.steps]

\* One call of findCriticRegions on the text typed, measured.
Measure ==
  /\ phase = "typing" /\ mode = "work"
  /\ scanned' = <<findCriticRegionsWork(input, 0)>>
  /\ phase' = "measured"
  /\ UNCHANGED <<input, mode, ntok, open, typed, accepted, rejected, appVars, editVars>>

WorkNext ==
  \/ \E t \in ClickTokens : TypeToken(t)
  \/ Measure

SpecWork == TypingIn("work") /\ [][WorkNext]_vars


(***************************************************************************)
(* SpecRound: a plain document of at most MaxRoundTokens characters is     *)
(* loaded and edited in the fallback textarea with at most MaxKeys keys,   *)
(* the selection placed anywhere before each key; then Accept All or       *)
(* Reject All is clicked.                                                  *)
(***************************************************************************)
\* The user places the selection of the textarea between two keys.
moveSelection(a, b) ==
  /\ phase = "loaded" /\ pc = "idle"
  /\ keys # <<>> /\ Len(keys) < MaxKeys /\ last.op = "input"
  /\ a \in 0..Len(value) /\ b \in a..Len(value)
  /\ <<a, b>> # <<selStart, selEnd>>
  /\ selStart' = a
  /\ selEnd' = b
  /\ trackSelection
  /\ UNCHANGED <<scanVars, appVars, value, suggestionModeActive, renderTimer, dirty, nedits,
                 keys, suggestionApplying, pending, currentLayout, stored, Editor, editorView>>

RoundNext ==
  \/ \E t \in RoundTokens : TypeToken(t)
  \/ loadContent
  \/ toggleSuggestionMode
  \/ \E a \in 0..Len(value), b \in 0..Len(value) : select(a, b)
  \/ \E a \in 0..Len(value), b \in 0..Len(value) : moveSelection(a, b)
  \/ last.op \in {"loadContent", "input"} /\ beforeinput("insertText", <<"X">>)
  \/ last.op \in {"loadContent", "input"} /\ beforeinput("deleteContentBackward", <<>>)
  \/ last.op \in {"loadContent", "input"} /\ beforeinput("deleteContentForward", <<>>)
  \/ last.op = "input" /\ renderTimerFires
  \/ view # <<>> /\ last.op = "input" /\ acceptAllBegin
  \/ acceptAllPass
  \/ acceptAllEnd
  \/ view # <<>> /\ last.op = "input" /\ rejectAllBegin
  \/ rejectAllPass
  \/ rejectAllEnd

SpecRound == TypingIn("round") /\ [][RoundNext]_vars

\* SpecKept: as SpecRound, the selection left where each key puts it.
KeptNext ==
  \/ \E t \in RoundTokens : TypeToken(t)
  \/ loadContent
  \/ toggleSuggestionMode
  \/ \E a \in 0..Len(value), b \in 0..Len(value) : select(a, b)
  \/ last.op \in {"loadContent", "input"} /\ beforeinput("insertText", <<"X">>)
  \/ last.op \in {"loadContent", "input"} /\ beforeinput("deleteContentBackward", <<>>)
  \/ last.op \in {"loadContent", "input"} /\ beforeinput("deleteContentForward", <<>>)
  \/ last.op = "input" /\ renderTimerFires
  \/ view # <<>> /\ last.op = "input" /\ acceptAllBegin
  \/ acceptAllPass
  \/ acceptAllEnd
  \/ view # <<>> /\ last.op = "input" /\ rejectAllBegin
  \/ rejectAllPass
  \/ rejectAllEnd

SpecKept == TypingIn("round") /\ [][KeptNext]_vars


\* SpecSubst: a text is typed and cut in two, the deleted text and the
\* inserted text of a replacement made in suggestion mode; the substitution
\* the editor writes for them is handed to acceptMarkup and rejectMarkup.
Substitute(k) ==
  /\ phase = "typing" /\ mode = "subst"
  /\ k \in 0..Len(input)
  /\ LET s == substring(input, 0, k)
         t == substring(input, k, Len(input))
         markup == wrapSubstitution(s, t)
     IN scanned' = <<[old |-> s, new |-> t, markup |-> markup,
                      accepted |-> acceptMarkup(markup),
                      rejected |-> rejectMarkup(markup)]>>
  /\ phase' = "substituted"
  /\ UNCHANGED <<input, mode, ntok, open, typed, accepted, rejected, appVars, editVars>>

SubstNext ==
  \/ \E t \in SepTokens : TypeToken(t)
  \/ \E k \in 0..(3 * MaxSubstTokens) : Substitute(k)

SpecSubst == TypingIn("subst") /\ [][SubstNext]_vars

\* SpecAttr: the content of an addition is typed; the region the scanner
\* finds is written to a data-markup attribute as renderCriticRegion writes
\* it, read back with getAttribute and un-escaped as handleAcceptReject
\* does.
Attribute ==
  /\ phase = "typing" /\ mode = "entity"
  /\ LET regs == findCriticRegions(wrapAddition(input))
         written == escapeHtml(regs[1].fullMarkup)
     IN scanned' = <<[fullMarkup |-> regs[1].fullMarkup,
                      written |-> written,
                      chain |-> unescapeMarkup(written),
                      recovered |-> unescapeMarkup(htmlDecode(written))]>>
  /\ phase' = "recovered"
  /\ UNCHANGED <<input, mode, ntok, open, typed, accepted, rejected, appVars, editVars>>

AttrNext ==
  \/ \E t \in EntityTokens : TypeToken(t)
  \/ Attribute

SpecAttr == TypingIn("entity") /\ [][AttrNext]_vars


(***************************************************************************)
(* SpecEditor: the editor pane. Documents are loaded from the input area    *)
(* and from files, before and after CodeMirror is loaded; the document is   *)
(* edited in the CodeMirror view or in the fallback textarea, regions are   *)
(* resolved, suggestion mode and the layout are switched, and the user      *)
(* returns to the drop zone.                                               *)
(***************************************************************************)
\* The listener of 'editor-ready', fired once by the loader of CodeMirror:
\* with a document loaded and no view, the textarea gives way to a view.
editorReady ==
  /\ pc = "idle"
  /\ ~Editor
  /\ Editor' = TRUE
  /\ IF phase = "loaded" /\ editorView = <<>>
     THEN removeFallbackTextarea /\ editorView' = createEditor(source)
     ELSE UNCHANGED <<value, selStart, selEnd, editorView>>
  /\ UNCHANGED <<scanVars, appVars, suggestionModeActive, renderTimer, dirty, nedits, keys,
                 suggestionApplying, pending, lastFallbackSelection, currentLayout, stored>>

\* showDropZone(), the click handler of the button that starts a new
\* document: the input area is emptied, Autosave stopped, the view destroyed
\* and the textarea removed.
showDropZone ==
  /\ phase = "loaded" /\ pc = "idle"
  /\ phase' = "typing"
  /\ input' = <<>>
  /\ ntok' = 0
  /\ dirty' = FALSE
  /\ editorView' = <<>>
  /\ removeFallbackTextarea
  /\ UNCHANGED <<mode, open, typed, scanned, accepted, rejected, appVars, suggestionModeActive,
                 renderTimer, nedits, keys, suggestionApplying, pending, lastFallbackSelection,
                 currentLayout, stored, Editor>>

\* onEditorUpdate(newDoc), called by the update listener of the view when a
\* transaction has changed the document.
onEditorUpdate(newDoc) ==
  /\ source' = newDoc
  /\ dirty' = TRUE
  /\ debouncedRender

\* An edit made in the CodeMirror view: the characters from fromA up to toA
\* are replaced by insertedText, the transaction passing suggestionFilter.
editorInput(fromA, toA, insertedText) ==
  /\ phase = "loaded" /\ pc = "idle"
  /\ Editor /\ editorView # <<>>
  /\ currentLayout # "preview-only"
  /\ nedits < MaxEdits
  /\ fromA \in 0..Len(EditorDoc) /\ toA \in fromA..Len(EditorDoc)
  /\ fromA # toA \/ insertedText # <<>>
  /\ LET v == editorView[1]
         newDoc == dispatch(FALSE, v.suggestionMode, v.doc, fromA, toA, insertedText)
     IN  /\ editorView' = <<[v EXCEPT !.doc = newDoc]>>
         /\ onEditorUpdate(newDoc)
  /\ nedits' = nedits + 1
  /\ UNCHANGED <<scanVars, pc, regions, passes, mdCalls, view, last, value, selStart, selEnd,
                 suggestionModeActive, keys, suggestionApplying, lastFallbackSelection,
                 currentLayout, stored, Editor>>

\* The click handler of the comment button with a CodeMirror view whose
\* selection runs from from to to: Editor.addComment(editorView), the prompt
\* answered with commentText.
editorAddComment(from, to, commentText) ==
  /\ phase = "loaded" /\ pc = "idle"
  /\ Editor /\ editorView # <<>>
  /\ nedits < MaxEdits
  /\ from \in 0..Len(EditorDoc) /\ to \in from..Len(EditorDoc)
  /\ from # to
  /\ LET v == editorView[1]
         newDoc == addCommentCommand(v.suggestionMode, v.doc, from, to, commentText)
     IN  /\ editorView' = <<[v EXCEPT !.doc = newDoc]>>
         /\ onEditorUpdate(newDoc)
  /\ nedits' = nedits + 1
  /\ UNCHANGED <<scanVars, pc, regions, passes, mdCalls, view, last, value, selStart, selEnd,
                 suggestionModeActive, keys, suggestionApplying, lastFallbackSelection,
                 currentLayout, stored, Editor>>

\* SpecEditor: loads, edits in either widget, comments and resolutions.
\* Edits in the view are made at the end of the document or replace all of
\* it; the textarea receives one key. A file is dropped on the drop zone,
\* or on the main layout once a version of the document is autosaved.
EditorNext ==
  \/ \E t \in EditorTokens : TypeToken(t)
  \/ \E confirmed \in BOOLEAN : phase = "typing" /\ input # <<>> /\ loadText(input, confirmed)
  \/ \E text \in FileTexts, confirmed \in BOOLEAN :
       /\ phase = "loaded" => stored # <<>> /\ last.op # "loadContent"
       /\ loadText(text, confirmed)
  \/ editorReady
  \/ toggleSuggestionMode
  \/ \E fromA \in {0, Len(EditorDoc)} :
       editorInput(fromA, Len(EditorDoc), IF fromA = Len(EditorDoc) THEN <<"X">> ELSE <<>>)
  \/ editorAddComment(0, Len(EditorDoc), <<"c">>)
  \/ editorView = <<>> /\ select(0, Len(value))
  \/ \E type \in {"insertText", "deleteContentBackward"} :
       editorView = <<>> /\ keys = <<>> /\ beforeinput(type, DataOf(type))
  \/ editorView = <<>> /\ keys = <<>> /\ addComment(<<"c">>, TRUE)
  \/ autosaveTick
  \/ view # <<>> /\ acceptAllBegin
  \/ acceptAllPass
  \/ acceptAllEnd
  \/ view # <<>> /\ rejectAllBegin
  \/ rejectAllPass
  \/ rejectAllEnd
  \/ \E n \in 1..Len(view), accept \in BOOLEAN : handleAcceptReject(n, accept)

SpecEditor == TypingIn("editor") /\ [][EditorNext]_vars

\* SpecMode: suggestion mode and the layout are switched while documents
\* are loaded, CodeMirror arrives and the user returns to the drop zone.
ModeNext ==
  \/ \E t \in EditorTokens : TypeToken(t)
  \/ loadContent
  \/ \E text \in FileTexts : loadText(text, FALSE)
  \/ editorReady
  \/ showDropZone
  \/ toggleSuggestionMode
  \/ \E layout \in Layouts : setLayout(layout)

SpecMode == TypingIn("editor") /\ [][ModeNext]_vars


\* SpecFair: well-nested texts resolved with Accept All / Reject All only.
\* Once started, acceptAll and rejectAll run to completion: their loop is
\* synchronous code that nothing interrupts.
FairInit == Init /\ mode = "short"

FairNext ==
  \/ \E p \in PlainTokens : TypePlain(p)
  \/ \E k \in Kinds : TypeOpen(k)
  \/ TypeClose
  \/ loadContent
  \/ acceptAllBegin
  \/ acceptAllPass
  \/ acceptAllEnd
  \/ rejectAllBegin
  \/ rejectAllPass
  \/ rejectAllEnd

LoopStep == acceptAllPass \/ acceptAllEnd \/ rejectAllPass \/ rejectAllEnd

SpecFair == FairInit /\ [][FairNext]_vars /\ WF_vars(LoopStep)

(***************************************************************************)
(* Vocabulary of the claims.                                               *)
(***************************************************************************)
Min(S) == CHOOSE x \in S : \A y \in S : x <= y

\* The markup without its first 3 and last 3 characters.
Content(m) == SubSeq(m, 4, Len(m) - 3)

\* s occurs in t at 0-based offset i.
OccursAt(s, t, i) == i >= 0 /\ i + Len(s) <= Len(t) /\ SubSeq(t, i + 1, i + Len(s)) = s
Occurrences(s, t) == { i \in 0..Len(t) : OccursAt(s, t, i) }

HasOpener(t)    == \E k \in Kinds : Occurrences(OpenerOf(k), t) # {}
HasDelimiter(t) == \E k \in Kinds : Occurrences(OpenerOf(k), t) # {} \/ Occurrences(CloserOf(k), t) # {}

\* The offsets of the `~>` of c that lie in no region of c: the top-level ones.
TopLevelSeparators(c) ==
  LET rs == findCriticRegions(c) IN
  { i \in Occurrences(Separator, c) :
      ~ \E k \in 1..Len(rs) : rs[k].start <= i /\ i < rs[k].end }

\* The region of kind k that spans the whole of t.
WholeRegion(t, k) == [start |-> 0, end |-> Len(t), type |-> k, fullMarkup |-> t]

\* The accept and reject texts of the table of kinds.
TableAccept(kind, c) ==
  CASE kind = "addition"     -> c
    [] kind = "deletion"     -> <<>>
    [] kind = "substitution" ->
         IF TopLevelSeparators(c) = {} THEN <<>>
         ELSE SubSeq(c, Min(TopLevelSeparators(c)) + 3, Len(c))
    [] kind = "comment"      -> <<>>
    [] kind = "highlight"    -> c

TableReject(kind, c) ==
  CASE kind = "addition"     -> <<>>
    [] kind = "deletion"     -> c
    [] kind = "substitution" ->
         IF TopLevelSeparators(c) = {} THEN c
         ELSE SubSeq(c, 1, Min(TopLevelSeparators(c)))
    [] kind = "comment"      -> <<>>
    [] kind = "highlight"    -> c

(***************************************************************************)
(* C1.  For every region the scanner reports, of each of the five kinds,   *)
(* acceptMarkup and rejectMarkup of its markup are the texts of the table: *)
(* addition -> (content, ""), deletion -> ("", content), substitution ->   *)
(* (text after the first top-level `~>`, text before it) and ("", content) *)
(* when no `~>` is top-level, comment -> ("", ""), highlight -> (content,  *)
(* content); content is the markup less its first 3 and last 3 characters. *)
(***************************************************************************)
C1_ResolveTable ==
  phase = "resolved" =>
    \A k \in 1..Len(scanned) :
      LET m == scanned[k].fullMarkup IN
      /\ accepted[k] = TableAccept(scanned[k].type, Content(m))
      /\ rejected[k] = TableReject(scanned[k].type, Content(m))

\* A substitution whose first `~>` lies in a nested region and whose second
\* one is top-level has been resolved.
C1_Witness ==
  /\ phase = "resolved"
  /\ \E k \in 1..Len(scanned) :
       LET c == Content(scanned[k].fullMarkup) IN
       /\ scanned[k].type = "substitution"
       /\ TopLevelSeparators(c) # {}
       /\ Min(TopLevelSeparators(c)) > Min(Occurrences(Separator, c))

(***************************************************************************)
(* C2.  A markup made of the opener of kind K, a content without any       *)
(* opener or closer sequence (possibly empty) and the closer of K scans as *)
(* exactly one region, of kind K, from 0 to the length of the markup.      *)
(***************************************************************************)
C2_SingleRegion ==
  (mode = "chars" /\ phase # "typing" /\ Len(typed) = 1 /\ ~HasDelimiter(Content(input))) =>
    scanned = << WholeRegion(input, typed[1].type) >>

\* A comment whose content is the three characters "{+}" has been scanned.
C2_Witness ==
  /\ mode = "chars" /\ phase = "scanned" /\ Len(typed) = 1
  /\ typed[1].type = "comment"
  /\ Content(input) = <<"{", "+", "}">>

(***************************************************************************)
(* C3.  Well-nested markups: the text was typed as literal pieces and      *)
(* complete regions, and is one region from its first to its last          *)
(* character.                                                              *)
(***************************************************************************)
\* The top-level regions of the text as it was typed.
Expect == SelectSeq(typed, LAMBDA r : r.depth = 0)

IsTypedMarkup ==
  /\ mode = "nested" /\ phase # "typing"
  /\ Len(Expect) = 1 /\ Expect[1].start = 0 /\ Expect[1].end = Len(input)

\* The offsets of the text at which one of the five openers occurs.
OpenerOffsets(t) == UNION { Occurrences(OpenerOf(k), t) : k \in Kinds }

\* The only opener sequences of the text are the openers of its regions: no
\* literal piece forms one together with the delimiter that follows it.
NoStrayOpener == Cardinality(OpenerOffsets(input)) = Len(typed)

\* C3 as stated: a markup whose content is a concatenation of literal pieces
\* and complete regions scans as exactly one region of its kind that spans
\* the whole markup.
C3_Original ==
  IsTypedMarkup => scanned = << WholeRegion(input, Expect[1].type) >>

\* C3 as amended: the same, for the markups in which no literal piece forms an
\* opener sequence with the delimiter that follows it (a literal `{` directly
\* before a closer `++}`, `--}`, `~~}` or `==}`).
C3_NestedSingleRegion ==
  (IsTypedMarkup /\ NoStrayOpener) => scanned = << WholeRegion(input, Expect[1].type) >>

\* A markup holding a region of its own kind two levels down has been scanned.
C3_Witness ==
  /\ IsTypedMarkup /\ NoStrayOpener /\ phase = "scanned"
  /\ \E j \in 1..Len(typed) : typed[j].depth = 2 /\ typed[j].type = Expect[1].type

(***************************************************************************)
(* C5.  The regions of one scan are sorted by strictly increasing start    *)
(* and do not overlap: each region ends at or before the start of the next.*)
(***************************************************************************)
C5_SortedDisjoint ==
  \A k \in 1..Len(scanned) - 1 :
    /\ scanned[k].start < scanned[k + 1].start
    /\ scanned[k].end <= scanned[k + 1].start

\* A scan has reported two regions, the first of which holds a nested region.
C5_Witness ==
  /\ phase = "scanned" /\ Len(scanned) >= 2
  /\ HasOpener(Content(scanned[1].fullMarkup))

(***************************************************************************)
(* C6.  Every region of a scan lies in the input (0 <= start, end <=       *)
(* length), is at least 6 characters long, has fullMarkup equal to the     *)
(* input from start to end, and its fullMarkup begins with the opener and  *)
(* ends with the closer of the region's kind.                              *)
(***************************************************************************)
C6_RegionShape ==
  \A k \in 1..Len(scanned) :
    LET r == scanned[k] IN
    /\ 0 <= r.start /\ r.end <= Len(input)
    /\ r.end - r.start >= 6
    /\ r.fullMarkup = SubSeq(input, r.start + 1, r.end)
    /\ r.type \in Kinds
    /\ SubSeq(r.fullMarkup, 1, 3) = OpenerOf(r.type)
    /\ SubSeq(r.fullMarkup, Len(r.fullMarkup) - 2, Len(r.fullMarkup)) = CloserOf(r.type)

\* A scan has reported a comment that does not start the input and whose
\* content holds the characters of another kind's closer.
C6_Witness ==
  /\ phase = "scanned"
  /\ \E k \in 1..Len(scanned) :
       /\ scanned[k].type = "comment" /\ scanned[k].start > 0
       /\ Occurrences(CloserOf("addition"), Content(scanned[k].fullMarkup)) # {}

(***************************************************************************)
(* C8.  An opener that no closer of its kind follows is skipped as literal *)
(* text: no reported region starts at it, and every complete region that   *)
(* starts after it is still reported, as a region of its own or within a   *)
(* reported region.                                                        *)
(***************************************************************************)
\* An opener of kind k starts at offset i and no closer of kind k starts at
\* or after offset i + 3.
Unclosed(t, i, k) ==
  /\ OccursAt(OpenerOf(k), t, i)
  /\ \A j \in Occurrences(CloserOf(k), t) : j < i + 3

\* A complete region of kind k starts at offset j and ends at offset e.
Complete(t, j, k, e) ==
  /\ OccursAt(OpenerOf(k), t, j)
  /\ e # -1
  /\ e = findCriticClose(t, j + 3, CloserOf(k))

KeepsContent(type, accept) ==
  \/ type = "deletion" /\ ~accept
  \/ type = "addition" /\ accept
  \/ type = "highlight"

\* The region the latest click resolved was a top-level region of the
\* document, and its resolution put its content in its place.
ResolvedKeepingContent ==
  /\ phase = "loaded" /\ pc = "idle"
  /\ last.op = "handleAcceptReject"
  /\ KeepsContent(last.type, last.accept)
  /\ \E n \in 1..Len(findCriticRegions(last.before)) :
       LET A == findCriticRegions(last.before)[n] IN
       A.start = last.offset /\ A.fullMarkup = last.markup /\ A.type = last.type

\* The scan of the document reports a region of this kind and markup.
Reports(doc, B) ==
  \E n \in 1..Len(findCriticRegions(doc)) :
    /\ findCriticRegions(doc)[n].type = B.type
    /\ findCriticRegions(doc)[n].fullMarkup = B.fullMarkup

\* C4 as stated: after a top-level region A is resolved in a way that keeps
\* its content, every region B that a scan of A's content reports is
\* reported by the scan of the whole document, with the same kind and the
\* same fullMarkup.
C4_Original ==
  ResolvedKeepingContent =>
    \A k \in 1..Len(findCriticRegions(Content(last.markup))) :
      Reports(source, findCriticRegions(Content(last.markup))[k])

\* The text of the document before and after the region the latest click
\* resolved.
TextBefore == SubSeq(last.before, 1, last.offset)
TextAfter == SubSeq(last.before, last.offset + Len(last.markup) + 1, Len(last.before))

HasChar(t, c) == \E k \in 1..Len(t) : t[k] = c

\* Nothing outside the resolved region can pair with a delimiter of its
\* content: no opener starts in the text before it, no closer ends in the
\* text after it.
OutsideInert == ~HasChar(TextBefore, "{") /\ ~HasChar(TextAfter, "}")

\* C4, amended: when the text before A contains no "{" and the text after A
\* contains no "}", every region B that a scan of A's content reports is
\* reported by the scan of the whole document after A is resolved keeping
\* its content, with the same kind and the same fullMarkup.
C4_ExposedRegions ==
  (ResolvedKeepingContent /\ OutsideInert) =>
    \A k \in 1..Len(findCriticRegions(Content(last.markup))) :
      Reports(source, findCriticRegions(Content(last.markup))[k])

\* A region with text on both sides was resolved and its content holds a
\* region.
C4_Witness ==
  /\ ResolvedKeepingContent /\ OutsideInert
  /\ TextBefore # <<>> /\ TextAfter # <<>>
  /\ findCriticRegions(Content(last.markup)) # <<>>

\* C7: when the source contains none of the five openers, the scan returns
\* no region and render hands the source, unchanged, to md.render in
\* exactly one call.
C7_PlainSourceForwarded ==
  (phase = "loaded" /\ pc = "idle" /\ ~HasOpener(source)) =>
    /\ findCriticRegions(source) = <<>>
    /\ mdCalls = << source >>
    /\ view = <<>>

\* A loaded source without opener that holds a "{" and a separator.
C7_Witness ==
  /\ phase = "loaded" /\ pc = "idle" /\ last.op = "loadContent"
  /\ ~HasOpener(source)
  /\ Occurrences(Separator, source) # {}
  /\ HasChar(source, "{")

AllOps == {"acceptAll", "rejectAll"}

\* C9: acceptAll and rejectAll terminate (no run stays in its loop for ever:
\* the application is idle again and again), and each iteration of their
\* loop shortens the document by at least 6 characters for each region it
\* resolved, of which there is at least one.
C9_PassesShortenAndEnd ==
  /\ [][passes' = passes + 1 =>
          /\ Len(regions) >= 1
          /\ Len(source') + 6 * Len(regions) <= Len(source)]_vars
  /\ []<>(pc = "idle")

\* A loop that has run twice: the second iteration resolved what the first
\* one exposed.
C9_Witness == pc \in AllOps /\ passes = 2 /\ Len(source) + 12 <= Len(last.before)

\* C10: when acceptAll or rejectAll has returned, the scan of the document
\* returns no region, and running either of them again leaves the document
\* unchanged.
C10_Fixpoint ==
  (phase = "loaded" /\ pc = "idle" /\ last.op \in AllOps) =>
    /\ findCriticRegions(source) = <<>>
    /\ view = <<>>
    /\ last.prev \in AllOps => source = last.before

\* A second run, on a document the first run changed and left with a
\* delimiter that belongs to no region.
C10_Witness ==
  /\ phase = "loaded" /\ pc = "idle"
  /\ last.op \in AllOps /\ last.prev \in AllOps
  /\ source # input
  /\ HasDelimiter(source)

\* No region of the document holds a region: the scan of every region's
\* content is empty.
OnlyTopLevel(doc) ==
  \A k \in 1..Len(findCriticRegions(doc)) :
    findCriticRegions(Content(findCriticRegions(doc)[k].fullMarkup)) = <<>>

\* The literal text of the document, left to right, with the markup of each
\* region replaced by its reject output.
RECURSIVE RejectConcatFrom(_, _, _)
RejectConcatFrom(doc, k, lastEnd) ==
  LET regs == findCriticRegions(doc) IN
  IF k > Len(regs) THEN SubSeq(doc, lastEnd + 1, Len(doc))
  ELSE SubSeq(doc, lastEnd + 1, regs[k].start)
         \o TableReject(regs[k].type, Content(regs[k].fullMarkup))
         \o RejectConcatFrom(doc, k + 1, regs[k].end)

RejectConcat(doc) == RejectConcatFrom(doc, 1, 0)

RejectAllReturned == phase = "loaded" /\ pc = "idle" /\ last.op = "rejectAll"

\* C11 as stated: when no region of the document holds a region, rejectAll
\* ends with zero regions and with the concatenation of the literal text and
\* the regions' reject outputs.
C11_Original ==
  (RejectAllReturned /\ OnlyTopLevel(last.before)) =>
    /\ findCriticRegions(source) = <<>>
    /\ source = RejectConcat(last.before)

\* C11, amended: when no region of the document holds a region and the
\* concatenation of the literal text and the regions' reject outputs scans
\* to zero regions itself, rejectAll ends with zero regions and with that
\* concatenation.
C11_RejectConcat ==
  (/\ RejectAllReturned
   /\ OnlyTopLevel(last.before)
   /\ findCriticRegions(RejectConcat(last.before)) = <<>>) =>
    /\ findCriticRegions(source) = <<>>
    /\ source = RejectConcat(last.before)

\* rejectAll has resolved two regions with text before the second one, and
\* text is left.
C11_Witness ==
  /\ RejectAllReturned /\ OnlyTopLevel(last.before)
  /\ findCriticRegions(RejectConcat(last.before)) = <<>>
  /\ Len(findCriticRegions(last.before)) >= 2
  /\ findCriticRegions(last.before)[1].end > findCriticRegions(last.before)[1].start + 6
  /\ source # <<>>

Max(S) == CHOOSE x \in S : \A y \in S : x >= y

\* The nesting depth of the regions the scanner reports: 0 without region,
\* else one more than the deepest content of a region.
RECURSIVE ScanDepth(_)
ScanDepth(doc) ==
  LET regs == findCriticRegions(doc) IN
  IF regs = <<>> THEN 0
  ELSE 1 + Max({ ScanDepth(Content(regs[k].fullMarkup)) : k \in 1..Len(regs) })

\* The nesting depth of the regions as they were typed.
TypedDepth == IF typed = <<>> THEN 0 ELSE 1 + Max({ typed[k].depth : k \in 1..Len(typed) })

AllReturned == phase = "loaded" /\ pc = "idle" /\ last.op \in AllOps

Clicked == phase = "loaded" /\ pc = "idle" /\ last.op = "handleAcceptReject"
ClickText == IF last.accept THEN acceptMarkup(last.markup) ELSE rejectMarkup(last.markup)

\* The document d with the occurrence of the markup m at offset i replaced by r.
ReplacedAt(d, m, i, r) == SubSeq(d, 1, i) \o r \o SubSeq(d, i + Len(m) + 1, Len(d))

\* C13: when the text of the document at the recorded offset is the recorded
\* markup, exactly that occurrence is replaced by the accept / reject text;
\* otherwise the leftmost occurrence of the markup in the document is, also
\* when the markup occurs more than once.
C13_RecordedOrFirst ==
  Clicked =>
    IF OccursAt(last.markup, last.before, last.offset)
      THEN source = ReplacedAt(last.before, last.markup, last.offset, ClickText)
      ELSE Occurrences(last.markup, last.before) # {} =>
             source = ReplacedAt(last.before, last.markup,
                                 Min(Occurrences(last.markup, last.before)), ClickText)

\* The offset has drifted, the markup occurs twice, and the first occurrence
\* was replaced.
C13_Witness ==
  /\ Clicked
  /\ ~OccursAt(last.markup, last.before, last.offset)
  /\ Cardinality(Occurrences(last.markup, last.before)) >= 2
  /\ source # last.before

\* C14: when the recorded markup is neither at the recorded offset nor
\* anywhere else in the document, the click leaves state.source as it was.
C14_SilentNoOp ==
  (Clicked /\ Occurrences(last.markup, last.before) = {}) => source = last.before

\* A click on a region whose markup an edit has broken.
C14_Witness ==
  /\ Clicked /\ Occurrences(last.markup, last.before) = {}
  /\ last.markup # <<>> /\ last.before # <<>>
  /\ renderTimer

(***************************************************************************)
(* Suggestion mode: what a key pressed in the fallback textarea does.      *)
(***************************************************************************)
\* A key was pressed in the editor; Key is the last one, with the text and
\* the selection it found.
Pressed == phase = "loaded" /\ keys # <<>>
Key == keys[Len(keys)]

WrappingKinds == {"addition", "deletion", "substitution", "comment"}

\* Offset p of t lies inside an unclosed opener: among the 500 characters
\* before p, an opener of a wrapping kind that no closer of its kind follows.
InsideUnclosed(t, p) ==
  LET from == IF p > 500 THEN p - 500 ELSE 0
      chunk == SubSeq(t, from + 1, p)
  IN  \E k \in WrappingKinds :
        \E i \in Occurrences(OpenerOf(k), chunk) :
          \A j \in Occurrences(CloserOf(k), chunk) : j < i

\* The key was pressed with suggestion mode on, outside markup.
PressedOutside == Pressed /\ Key.active /\ ~InsideUnclosed(Key.val, Key.selStart)

\* The change the key makes as a transaction of the CodeMirror editor: the
\* characters from KeyFrom up to KeyTo replaced by KeyInserted; Filtered is
\* the document suggestionFilter turns it into with suggestion mode on.
KeyFrom ==
  IF Key.selStart = Key.selEnd /\ Key.inputType = "deleteContentBackward" /\ Key.selStart > 0
  THEN Key.selStart - 1 ELSE Key.selStart
KeyTo ==
  IF Key.selStart = Key.selEnd /\ Key.inputType = "deleteContentForward"
     /\ Key.selStart < Len(Key.val)
  THEN Key.selStart + 1 ELSE Key.selEnd
KeyInserted ==
  IF Key.inputType \in InsertTypes THEN Key.data
  ELSE IF Key.inputType = "insertLineBreak" THEN LineBreak
  ELSE <<>>
Filtered == suggestionFilter(TRUE, Key.val, KeyFrom, KeyTo, KeyInserted)

\* C15: with suggestion mode on, the cursor at p outside markup and no
\* selection, inserting the text t makes the document
\* d[0:p] + "{++" + t + "++}" + d[p:], with the cursor at p + 3 + len(t),
\* between the inserted text and the closer.
C15_InsertWrapped ==
  (PressedOutside /\ Key.inputType \in InsertTypes /\ Key.selStart = Key.selEnd) =>
    LET d == Key.val
        p == Key.selStart
        t == Key.data
    IN  /\ value = SubSeq(d, 1, p) \o <<"{", "+", "+">> \o t \o <<"+", "+", "}">>
                   \o SubSeq(d, p + 1, Len(d))
        /\ source = value
        /\ selStart = p + 3 + Len(t)
        /\ selEnd = selStart

\* "X" typed at offset 1 of "ab" gives "a{++X++}b" with the cursor at 5.
C15_Witness ==
  /\ PressedOutside
  /\ Key.inputType = "insertText" /\ Key.data = <<"X">>
  /\ Key.val = <<"a", "b">> /\ Key.selStart = 1 /\ Key.selEnd = 1
  /\ value = <<"a", "{", "+", "+", "X", "+", "+", "}", "b">>
  /\ selStart = 5 /\ selEnd = 5

\* Every key so far inserted text with suggestion mode on and no selection,
\* the first of them outside markup; the selection is not touched between
\* the keys.
TypedRun ==
  /\ Pressed
  /\ \A k \in 1..Len(keys) :
       /\ keys[k].active
       /\ keys[k].inputType \in InsertTypes
       /\ keys[k].selStart = keys[k].selEnd
  /\ ~InsideUnclosed(keys[1].val, keys[1].selStart)

RECURSIVE TypedFrom(_)
TypedFrom(k) == IF k > Len(keys) THEN <<>> ELSE keys[k].data \o TypedFrom(k + 1)
TypedText == TypedFrom(1)

\* C16: characters c1..cn typed one after the other from a position p outside
\* markup, with no selection change, leave the document with one new
\* addition {++c1...cn++} at p: d[0:p] + "{++" + c1...cn + "++}" + d[p:].
C16_Original ==
  TypedRun =>
    LET d == keys[1].val
        p == keys[1].selStart
    IN  value = SubSeq(d, 1, p) \o <<"{", "+", "+">> \o TypedText \o <<"+", "+", "}">>
                \o SubSeq(d, p + 1, Len(d))

\* "}" then "X" typed at offset 1 of "ab": the second key starts an addition
\* of its own inside the first.
C16_Witness ==
  /\ TypedRun /\ Len(keys) = 2
  /\ keys[1].val = <<"a", "b">> /\ keys[1].selStart = 1
  /\ TypedText = <<"}", "X">>
  /\ value = <<"a", "{", "+", "+", "}", "{", "+", "+", "X", "+", "+", "}", "+", "+", "}", "b">>

\* The character "X" was typed with suggestion mode on at a cursor outside
\* markup, and the next key, at the cursor the first one left, was a
\* backspace.
TypedThenBackspace ==
  /\ Pressed /\ Len(keys) = 2
  /\ keys[1].active
  /\ keys[1].inputType \in InsertTypes /\ keys[1].data = <<"X">>
  /\ keys[1].selStart = keys[1].selEnd
  /\ ~InsideUnclosed(keys[1].val, keys[1].selStart)
  /\ keys[2].inputType = "deleteContentBackward"

\* C17 as stated: the backspace wraps the character left of the cursor, the
\* X, as a deletion: d[0:p] + "{++" + "{--X--}" + "++}" + d[p:].
C17_Original ==
  TypedThenBackspace =>
    LET d == keys[1].val
        p == keys[1].selStart
    IN  value = SubSeq(d, 1, p) \o <<"{", "+", "+">>
                \o <<"{", "-", "-", "X", "-", "-", "}">>
                \o <<"+", "+", "}">> \o SubSeq(d, p + 1, Len(d))

\* C17, amended: the cursor right after the X lies inside the addition just
\* made, so the backspace is passed through: the X is deleted, the document
\* is d[0:p] + "{++++}" + d[p:] with the cursor at p + 3, and neither a
\* deletion nor a second addition is made.
C17_BackspacePassedThrough ==
  TypedThenBackspace =>
    LET d == keys[1].val
        p == keys[1].selStart
    IN  /\ InsideUnclosed(keys[2].val, keys[2].selStart)
        /\ value = SubSeq(d, 1, p) \o <<"{", "+", "+", "+", "+", "}">> \o SubSeq(d, p + 1, Len(d))
        /\ source = value
        /\ selStart = p + 3 /\ selEnd = p + 3

\* "X" typed at offset 1 of "ab", then a backspace: "a{++++}b".
C17_Witness ==
  /\ TypedThenBackspace
  /\ keys[1].val = <<"a", "b">> /\ keys[1].selStart = 1
  /\ keys[2].val = <<"a", "{", "+", "+", "X", "+", "+", "}", "b">> /\ keys[2].selStart = 5
  /\ value = <<"a", "{", "+", "+", "+", "+", "}", "b">>
  /\ selStart = 4

DeleteTypes == {"deleteContentBackward", "deleteContentForward"}

\* The text d with the characters from offset a up to offset b wrapped as a
\* deletion.
DeletionWrapped(d, a, b) ==
  SubSeq(d, 1, a) \o <<"{", "-", "-">> \o SubSeq(d, a + 1, b) \o <<"-", "-", "}">>
  \o SubSeq(d, b + 1, Len(d))

\* C18: with suggestion mode on and outside markup, an edit that only
\* deletes never shortens the document.  A selection s becomes "{--" + s +
\* "--}" (six characters more) with the cursor right after the closer; with
\* no selection, backspace wraps the character before the cursor and forward
\* delete the character after it; backspace at the start of the document
\* and forward delete at its end change nothing.  The transaction filter of
\* the CodeMirror editor wraps a deleted range the same way.
C18_DeleteWrapped ==
  /\ (Pressed /\ Key.inputType \in DeleteTypes /\ KeyFrom < KeyTo
        /\ ~InsideUnclosed(Key.val, KeyFrom)) =>
       Filtered = DeletionWrapped(Key.val, KeyFrom, KeyTo)
  /\ (PressedOutside /\ Key.inputType \in DeleteTypes) =>
    LET d == Key.val
        s == Key.selStart
        e == Key.selEnd
    IN  /\ Len(value) >= Len(d)
        /\ source = value
        /\ IF s < e
           THEN /\ value = DeletionWrapped(d, s, e)
                /\ Len(value) = Len(d) + 6
                /\ selStart = e + 6 /\ selEnd = e + 6
           ELSE IF Key.inputType = "deleteContentBackward" /\ s > 0
           THEN /\ value = DeletionWrapped(d, s - 1, s)
                /\ selStart = s + 6 /\ selEnd = s + 6
           ELSE IF Key.inputType = "deleteContentForward" /\ s < Len(d)
           THEN /\ value = DeletionWrapped(d, s, s + 1)
                /\ selStart = s + 7 /\ selEnd = s + 7
           ELSE value = d /\ selStart = s /\ selEnd = s

\* The selection "ab" of the document "ab" deleted: "{--ab--}", the cursor
\* at its end.
C18_Witness ==
  /\ PressedOutside /\ Key.inputType \in DeleteTypes
  /\ Key.val = <<"a", "b">> /\ Key.selStart = 0 /\ Key.selEnd = 2
  /\ value = <<"{", "-", "-", "a", "b", "-", "-", "}">>
  /\ selStart = 8

\* The text d with the characters from offset a up to offset b replaced by
\* the substitution of t for them.
SubstitutionWrapped(d, a, b, t) ==
  SubSeq(d, 1, a) \o <<"{", "~", "~">> \o SubSeq(d, a + 1, b) \o <<"~", ">">> \o t
  \o <<"~", "~", "}">> \o SubSeq(d, b + 1, Len(d))

\* C19: with suggestion mode on and outside markup, an edit that deletes the
\* non-empty text s and inserts the non-empty text t replaces s by
\* "{~~" + s + "~>" + t + "~~}" and leaves the rest of the document as it
\* was; in the fallback textarea the cursor is at the end of the markup.
\* The transaction filter of the CodeMirror editor makes the same document.
C19_ReplaceWrapped ==
  (PressedOutside /\ Key.inputType \in InsertTypes /\ Key.selStart < Key.selEnd) =>
    LET d == Key.val
        s == Key.selStart
        e == Key.selEnd
        t == Key.data
    IN  /\ t # <<>>
        /\ value = SubstitutionWrapped(d, s, e, t)
        /\ source = value
        /\ selStart = e + Len(t) + 8 /\ selEnd = selStart
        /\ Filtered = SubstitutionWrapped(d, s, e, t)

\* The selection "a" of the document "ab" replaced by "X": "{~~a~>X~~}b",
\* the cursor at 10.
C19_Witness ==
  /\ PressedOutside /\ Key.inputType = "insertText" /\ Key.data = <<"X">>
  /\ Key.val = <<"a", "b">> /\ Key.selStart = 0 /\ Key.selEnd = 1
  /\ value = <<"{", "~", "~", "a", "~", ">", "X", "~", "~", "}", "b">>
  /\ selStart = 10 /\ selEnd = 10

\* The text d after the plain edit of a key of the given type and data with
\* the selection from s to e.
RawEdit(d, s, e, type, t) ==
  IF type \in InsertTypes THEN SubSeq(d, 1, s) \o t \o SubSeq(d, e + 1, Len(d))
  ELSE IF type = "insertLineBreak" THEN SubSeq(d, 1, s) \o LineBreak \o SubSeq(d, e + 1, Len(d))
  ELSE IF s < e THEN SubSeq(d, 1, s) \o SubSeq(d, e + 1, Len(d))
  ELSE IF type = "deleteByCut" THEN d
  ELSE IF type = "deleteContentBackward"
  THEN IF s > 0 THEN SubSeq(d, 1, s - 1) \o SubSeq(d, s + 1, Len(d)) ELSE d
  ELSE IF s < Len(d) THEN SubSeq(d, 1, s) \o SubSeq(d, s + 2, Len(d)) ELSE d

\* The key was pressed with suggestion mode on, at a position inside an
\* unclosed opener.
PressedInside == Pressed /\ Key.active /\ InsideUnclosed(Key.val, Key.selStart)

\* C20: with suggestion mode on, an edit whose start lies inside an unclosed
\* opener is passed through: the document after it is the plain edit, with
\* no delimiter added.  The same holds of the transaction filter of the
\* CodeMirror editor for every range that starts inside an unclosed opener.
C20_InsidePassedThrough ==
  /\ (Pressed /\ InsideUnclosed(Key.val, KeyFrom)) =>
       Filtered = SubSeq(Key.val, 1, KeyFrom) \o KeyInserted
                  \o SubSeq(Key.val, KeyTo + 1, Len(Key.val))
  /\ PressedInside =>
       /\ value = RawEdit(Key.val, Key.selStart, Key.selEnd, Key.inputType, Key.data)
       /\ source = value

\* "X" typed at the end of "{++a", inside the addition that is not closed
\* yet: "{++aX".
C20_Witness ==
  /\ PressedInside /\ Key.inputType = "insertText" /\ Key.data = <<"X">>
  /\ Key.val = <<"{", "+", "+", "a">> /\ Key.selStart = 4 /\ Key.selEnd = 4
  /\ value = <<"{", "+", "+", "a", "X">>

(***************************************************************************)
(* The inside-markup detector.                                             *)
(***************************************************************************)
Inspected == phase = "inspected"
InspectedPos == scanned[1].pos
\* The window of the detector: text[max(0, pos - 500) : pos].
WindowFrom == IF InspectedPos > 500 THEN InspectedPos - 500 ELSE 0
Window == SubSeq(input, WindowFrom + 1, InspectedPos)

\* The last occurrence of the opener of kind k in t exists and no closer of
\* kind k starts after it.
LastOpenerUnclosed(t, k) ==
  \E i \in Occurrences(OpenerOf(k), t) :
    /\ \A i2 \in Occurrences(OpenerOf(k), t) : i2 <= i
    /\ \A j \in Occurrences(CloserOf(k), t) : ~(j > i)

\* The openers of the text before the inspected position, of any kind, that
\* no closer of their kind follows before the position: kind and offset.
UnclosedOpeners ==
  LET t == SubSeq(input, 1, InspectedPos)
  IN  { <<k, i>> \in Kinds \X (0..Len(t)) :
          /\ OccursAt(OpenerOf(k), t, i)
          /\ \A j \in Occurrences(CloserOf(k), t) : j < i }

\* C21: isInsideMarkup(text, pos) is true exactly when, in the window
\* text[max(0, pos - 500) : pos], the last opener of an addition, a deletion,
\* a substitution or a comment exists and no closer of that kind starts after
\* it.  So it is false when every unclosed opener starts more than 500
\* characters before pos, and false when every unclosed opener is the opener
\* of a highlight.
C21_InsideExactly ==
  Inspected =>
    /\ scanned[1].inside <=> \E k \in WrappingKinds : LastOpenerUnclosed(Window, k)
    /\ (\A u \in UnclosedOpeners : u[2] < InspectedPos - 500) => ~scanned[1].inside
    /\ (\A u \in UnclosedOpeners : u[1] = "highlight") => ~scanned[1].inside

\* The opener of an addition starts 501 characters before the position and
\* nothing closes it: the position is reported outside.
C21_Witness ==
  /\ Inspected
  /\ InspectedPos = 501
  /\ UnclosedOpeners = { <<"addition", 0>> }
  /\ ~scanned[1].inside

(***************************************************************************)
(* The edits the application makes itself.                                 *)
(***************************************************************************)
\* The number of openers in the text t.
OpenerCount(t) == Cardinality({ <<k, i>> \in Kinds \X (0..Len(t)) : OccursAt(OpenerOf(k), t, i) })

\* The comment button was clicked and the prompt answered; the comment went
\* in at offset CommentAt of the document last.before.
Commented == phase = "loaded" /\ last.op = "addComment"
CommentAt == IF last.offset < Len(last.before) THEN last.offset ELSE Len(last.before)
CommentMarkup == <<"{", ">", ">">> \o last.markup \o <<"<", "<", "}">>

\* The deleted text del and the inserted text ins in one level of markup.
WrappedOnce(del, ins) ==
  IF del # <<>> /\ ins # <<>>
  THEN <<"{", "~", "~">> \o del \o <<"~", ">">> \o ins \o <<"~", "~", "}">>
  ELSE IF ins # <<>> THEN <<"{", "+", "+">> \o ins \o <<"+", "+", "}">>
  ELSE IF del # <<>> THEN <<"{", "-", "-">> \o del \o <<"-", "-", "}">>
  ELSE <<>>

\* C22: an edit the suggestion handler commits itself is not intercepted
\* again.  A key pressed with suggestion mode on, outside markup, puts one
\* level of markup, and no more, in place of the range it changes, and the
\* transaction the filter of the CodeMirror editor returns is dispatched as
\* it is.  With suggestion mode on, the document after an accept or a reject
\* is the resolved source with no opener added, and a comment goes in as
\* "{>>" + c + "<<}" alone, in either editor.
C22_CommittedOnce ==
  /\ (PressedOutside /\ ~suggestionApplying) =>
       LET w == WrappedOnce(SubSeq(Key.val, KeyFrom + 1, KeyTo), KeyInserted)
           once == SubSeq(Key.val, 1, KeyFrom) \o w \o SubSeq(Key.val, KeyTo + 1, Len(Key.val))
       IN  /\ value = once
           /\ dispatch(TRUE, TRUE, Key.val, KeyFrom, KeyTo, w) = once
  /\ (Clicked /\ suggestionModeActive) =>
       /\ value = source
       /\ OpenerCount(value) <= OpenerCount(last.before)
       /\ syncEditorFromState(TRUE, last.before, source) = source
  /\ (Commented /\ suggestionModeActive) =>
       /\ value = SubSeq(last.before, 1, CommentAt) \o CommentMarkup
                  \o SubSeq(last.before, CommentAt + 1, Len(last.before))
       /\ last.selStart < last.selEnd =>
            addCommentCommand(TRUE, last.before, last.selStart, last.selEnd, last.markup)
              = SubSeq(last.before, 1, last.selEnd) \o CommentMarkup
                \o SubSeq(last.before, last.selEnd + 1, Len(last.before))

\* "X" typed after "a" with suggestion mode on: "a{++X++}", one addition.
C22_Witness ==
  /\ PressedOutside /\ ~suggestionApplying
  /\ Key.inputType = "insertText" /\ Key.val = <<"a">> /\ Key.selStart = 1 /\ Key.selEnd = 1
  /\ value = <<"a", "{", "+", "+", "X", "+", "+", "}">>


\* C23: suggestionApplying is set only while a rewritten edit is being
\* committed: between two events of the page, when no handler runs, it is
\* false, whether the commit ended or threw.
C23_Original == suggestionApplying = FALSE

\* execCommand threw while "X" typed after "a" was being committed as
\* "{++X++}": the document is as it was and the guard is left set; the next
\* "X", typed with suggestion mode on outside markup, goes in as it is.
C23_Witness ==
  /\ Pressed /\ Len(keys) = 2 /\ suggestionApplying
  /\ keys[1].active /\ keys[1].inputType = "insertText" /\ keys[1].val = <<"a">>
  /\ keys[1].selStart = 1 /\ keys[1].selEnd = 1
  /\ keys[2].val = <<"a">> /\ keys[2].inputType = "insertText" /\ keys[2].selStart = 1
  /\ value = <<"a", "X">>


\* The text that stands in the document where the range changed by the key
\* stood, and the same for the document the CodeMirror filter makes.
ReplacementIn(doc) ==
  SubSeq(doc, KeyFrom + 1, KeyTo + Len(doc) - Len(Key.val))
\* The kind of markup chosen for the key's change.
ChosenKind ==
  IF KeyFrom < KeyTo /\ KeyInserted # <<>> THEN "substitution"
  ELSE IF KeyInserted # <<>> THEN "addition"
  ELSE "deletion"
PassedThrough(doc) ==
  doc = RawEdit(Key.val, Key.selStart, Key.selEnd, Key.inputType, Key.data)
WellFormed(w) == findCriticRegions(w) = << WholeRegion(w, ChosenKind) >>

\* C24: every edit made with suggestion mode on is either passed through
\* unchanged or replaced by a well-formed replacement: whatever the deleted
\* and the inserted text, the replacement scans as exactly one region of the
\* chosen kind that spans the whole replacement, in the fallback textarea
\* and in the CodeMirror editor.
C24_Original ==
  (Pressed /\ Key.active) =>
    /\ PassedThrough(value) \/ WellFormed(ReplacementIn(value))
    /\ PassedThrough(Filtered) \/ WellFormed(ReplacementIn(Filtered))

\* "++}" pasted after "a" with suggestion mode on: the replacement
\* "{++++}++}" scans as the empty addition "{++++}" followed by three stray
\* characters.
C24_Witness ==
  /\ PressedOutside /\ Key.inputType = "insertFromPaste" /\ Key.data = <<"+", "+", "}">>
  /\ Key.val = <<"a">> /\ Key.selStart = 1 /\ Key.selEnd = 1
  /\ value = <<"a", "{", "+", "+", "+", "+", "}", "+", "+", "}">>
  /\ ReplacementIn(value) = <<"{", "+", "+", "+", "+", "}", "+", "+", "}">>
  /\ Len(findCriticRegions(ReplacementIn(value))) = 1
  /\ findCriticRegions(ReplacementIn(value))[1].end = 6
  /\ Filtered = value


\* The key changes the document (it deletes or inserts something) and was
\* pressed with suggestion mode on, the cursor and the start of the changed
\* range both outside markup.
EditedOutside ==
  /\ PressedOutside
  /\ ~InsideUnclosed(Key.val, KeyFrom)
  /\ KeyFrom < KeyTo \/ KeyInserted # <<>>

\* C28: the fallback textarea supports suggestion mode in full.  For every
\* edit that changes the document outside markup with suggestion mode on,
\* whatever its input type (typing, line break, paste, cut, deletion), the
\* document the textarea handler makes is the one suggestionFilter of the
\* CodeMirror editor makes for the same deleted range and inserted text.
C28_Original == EditedOutside => value = Filtered

\* Enter pressed after "a" with suggestion mode on: the textarea takes the
\* line break as it is, the CodeMirror editor records it as an addition.
C28_Witness ==
  /\ EditedOutside /\ Key.inputType = "insertLineBreak"
  /\ Key.val = <<"a">> /\ Key.selStart = 1 /\ Key.selEnd = 1
  /\ value = <<"a", "\n">>
  /\ Filtered = <<"a", "{", "+", "+", "\n", "+", "+", "}">>


\* C27: the comment button, with the selection from s up to e not empty and
\* the prompt answered c, makes the document d[0:e] + "{>>" + c + "<<}" +
\* d[e:], e being the end of the selection as it is when the button is
\* clicked; the selected text is not wrapped.  With an empty selection the
\* document is left as it was.
C27_Original ==
  Commented =>
    /\ last.selStart < last.selEnd
    /\ value = SubSeq(last.before, 1, last.selEnd) \o CommentMarkup
               \o SubSeq(last.before, last.selEnd + 1, Len(last.before))

\* The "{" of "{++++}" selected, the addition accepted from the rendered
\* view, then the comment button clicked: the textarea is empty with an
\* empty selection, and the comment goes in all the same, at the end of the
\* selection saved before the accept.
C27_Witness ==
  /\ Commented /\ last.prev = "handleAcceptReject"
  /\ last.before = <<>> /\ last.selStart = 0 /\ last.selEnd = 0
  /\ last.offset = 1 /\ last.markup = <<"c">>
  /\ value = <<"{", ">", ">", "c", "<", "<", "}">>


(***************************************************************************)
(* The timers and the toolbar.                                             *)
(***************************************************************************)
Loaded == phase = "loaded" /\ pc = "idle"
ViewOf(src) == renderedView(findCriticRegions(src))

\* C25: the notifications that the document changed re-arm one debounce
\* timer.  At most one debounced render is pending, each mutation cancels the
\* one pending before it, and when none is pending the view shows the
\* document as it is now: the render that follows a burst of mutations reads
\* the latest document.
C25_OneRenderPending ==
  /\ pending <= 1
  /\ renderTimer = (pending = 1)
  /\ (Loaded /\ pending = 0) => view = ViewOf(source)

\* Two keys pressed in a row with suggestion mode on: one render is pending,
\* and the view still shows the document as it was before the first key.
C25_Witness ==
  /\ Loaded /\ Len(keys) = 2 /\ nedits = 2
  /\ keys[1].active /\ keys[2].val # keys[1].val /\ value # keys[2].val
  /\ pending = 1
  /\ view = ViewOf(keys[1].val) /\ view # ViewOf(value) /\ view # ViewOf(keys[2].val)

C29_Original ==
  (Loaded /\ ~dirty) => \/ stored = <<source>>
                        \/ stored = <<>> /\ source = input

\* "X" typed after "a" with suggestion mode on and autosaved as "a{++X++}";
\* then Accept All makes the document "aX" and marks nothing: the ticks that
\* follow leave the stored copy as it is.
C29_Witness ==
  /\ Loaded /\ ~dirty /\ last.op = "acceptAll"
  /\ last.before = <<"a", "{", "+", "+", "X", "+", "+", "}">>
  /\ source = <<"a", "X">> /\ value = source
  /\ stored = <<last.before>>


(***************************************************************************)
(* The separator of a substitution.                                        *)
(***************************************************************************)
Separated == phase = "separated"

\* The openers of the text c that start no region of c.
UnclosedOpenerOffsets(c) ==
  LET rs == findCriticRegions(c) IN
  { i \in 0..Len(c) :
      /\ \E k \in Kinds : OccursAt(OpenerOf(k), c, i)
      /\ ~ \E r \in 1..Len(rs) : rs[r].start <= i /\ i < rs[r].end }

Placed == phase = "placed"

HeadingKinds == {"addition", "deletion", "highlight"}

\* The region r of the text t starts a line; nothing follows it on its line.
StartsLine(t, r) == r.start = 0 \/ t[r.start] = "\n"
EndsLine(t, r)   == r.end = Len(t) \/ t[r.end + 1] = "\n"

\* The text c without the line breaks around it.
Trimmed(c) ==
  LET ks == { k \in 1..Len(c) : c[k] # "\n" } IN
  IF ks = {} THEN <<>> ELSE SubSeq(c, Min(ks), Max(ks))

\* p is the heading marker the line l starts with: 1 to 6 `#` and all the
\* whitespace that follows them.
IsMarkerOf(p, l) ==
  \E h \in 1..6 : \E w \in 1..Len(l) :
    /\ h + w <= Len(l)
    /\ p = SubSeq(l, 1, h + w)
    /\ \A k \in 1..h : l[k] = "#"
    /\ \A k \in (h + 1)..(h + w) : l[k] \in Whitespace
    /\ (h + w < Len(l) => l[h + w + 1] \notin Whitespace)

SingleLine(l) == \A k \in 1..Len(l) : l[k] # "\n"

\* C31 as stated: a heading prefix is recorded on a region only when the
\* region is an addition, a deletion or a highlight, is alone on its line
\* (it starts the line and nothing follows it there), and its content
\* without the line breaks around it is one line that starts with 1 to 6 `#`
\* followed by whitespace; the prefix is that marker.
C31_Original ==
  Placed =>
    \A k \in 1..Len(scanned) :
      scanned[k].headingPrefix # <<>> =>
        /\ scanned[k].type \in HeadingKinds
        /\ StartsLine(input, scanned[k]) /\ EndsLine(input, scanned[k])
        /\ SingleLine(Trimmed(Content(scanned[k].fullMarkup)))
        /\ IsMarkerOf(scanned[k].headingPrefix, Trimmed(Content(scanned[k].fullMarkup)))

\* C31, amended: a heading prefix is recorded on a region exactly when the
\* region is an addition, a deletion or a highlight, starts at the first
\* character of a line (text may follow it on that line), and its content
\* without the line breaks around it is one line that starts with 1 to 6 `#`
\* followed by whitespace; the prefix is that marker, and it stands before
\* the placeholder in the text given to markdown-it.
C31_PrefixAtLineStart ==
  Placed =>
    /\ \A k \in 1..Len(scanned) :
         LET l == Trimmed(Content(scanned[k].fullMarkup)) IN
         /\ scanned[k].headingPrefix # <<>> <=>
              /\ scanned[k].type \in HeadingKinds
              /\ StartsLine(input, scanned[k])
              /\ SingleLine(l)
              /\ \E p \in { SubSeq(l, 1, n) : n \in 1..Len(l) } : IsMarkerOf(p, l)
         /\ scanned[k].headingPrefix # <<>> => IsMarkerOf(scanned[k].headingPrefix, l)
    /\ scanned # <<>> =>
         \A k \in 1..Len(scanned) :
           Occurrences(scanned[k].headingPrefix \o placeholder(k - 1), mdCalls[1]) # {}

\* "{++# ++}a": the addition starts the line, its content is the marker
\* "# ", and "a" follows it on the line; the prefix is recorded.
C31_Witness ==
  /\ Placed
  /\ input = OpenerOf("addition") \o <<"#", " ">> \o CloserOf("addition") \o <<"a">>
  /\ scanned[1].headingPrefix = <<"#", " ">>
  /\ mdCalls[1] = <<"#", " ">> \o placeholder(0) \o <<"a">>


(***************************************************************************)
(* The grammar of the inline layer.                                        *)
(***************************************************************************)
Inlined == phase = "inlined"

\* The kind and the extent of each region of a scan, and of each token of
\* the inline parser.
ExtentsOfRegions(rs) ==
  { [type |-> rs[k].type, start |-> rs[k].start, end |-> rs[k].end] : k \in 1..Len(rs) }
ExtentsOfTokens(ts) ==
  { [type |-> ts[k].type, start |-> ts[k].offset, end |-> ts[k].offset + Len(ts[k].markup)] :
      k \in 1..Len(ts) }

\* C33 as stated: the inline rule of markdown-it recognises, in every text,
\* a region of the same kind and extent wherever the scanner reports one,
\* and none where the scanner reports none.
C33_Original ==
  Inlined => ExtentsOfTokens(accepted) = ExtentsOfRegions(scanned)

\* "{++{++a++}++}": the scanner reports the whole text as one addition, the
\* inline rule an addition that ends at the first closer.
C33_Witness ==
  /\ Inlined
  /\ input = OpenerOf("addition") \o OpenerOf("addition") \o <<"a">>
               \o CloserOf("addition") \o CloserOf("addition")
  /\ ExtentsOfRegions(scanned) = { [type |-> "addition", start |-> 0, end |-> 13] }
  /\ ExtentsOfTokens(accepted) = { [type |-> "addition", start |-> 0, end |-> 10] }


(***************************************************************************)
(* The restoration of the placeholders.                                    *)
(***************************************************************************)
Restored == phase = "restored"

\* The attributes that the element of the region r carries.
AttributesOf(r) ==
  spanOpen(r.type) \o escapeHtml(r.fullMarkup) \o <<"\" data-offset=\"">> \o toDecimal(r.start)
    \o (IF r.type = "comment" THEN <<"\" data-comment-text=\"">> ELSE <<"\">">>)

\* C32 as stated: after the restoration the HTML carries, for each region of
\* the document, data-markup equal to the escaped markup and data-offset
\* equal to the start of the region, and no placeholder is left, whatever
\* the document holds.
C32_Original ==
  Restored =>
    \A k \in 1..Len(scanned) :
      /\ Occurrences(AttributesOf(scanned[k]), accepted) # {}
      /\ Occurrences(placeholder(k - 1), accepted) = {}

\* "{++$$++}": the two `$` of the rendered region are a pattern of the
\* replacement string, and the HTML carries one `$`.
C32_Witness ==
  /\ Restored
  /\ input = OpenerOf("addition") \o <<"$", "$">> \o CloserOf("addition")
  /\ Len(scanned) = 1
  /\ Occurrences(AttributesOf(scanned[1]), accepted) = {}
  /\ Occurrences(spanOpen("addition") \o OpenerOf("addition") \o <<"$">> \o CloserOf("addition"),
                 accepted) # {}


(***************************************************************************)
(* The work of the scanner.                                                *)
(***************************************************************************)
Measured == phase = "measured"

\* The text of n openers of additions.
RECURSIVE OpenersOnly(_)
OpenersOnly(n) == IF n = 0 THEN <<>> ELSE OpenerOf("addition") \o OpenersOnly(n - 1)

\* C34 as stated, with 4 for the constant: one call of findCriticRegions on
\* a text of n characters makes at most 4 * n * n calls of findCriticClose
\* and iterations of the loops together, also when the text is made of
\* openers that nothing closes.
C34_Original ==
  Measured => scanned[1].calls + scanned[1].steps <= 4 * Len(input) * Len(input)

\* Twelve openers of additions and no closer: 36 characters, 4095 calls of
\* findCriticClose, and no region.
C34_Witness ==
  /\ Measured
  /\ input = OpenersOnly(12)
  /\ scanned[1].calls = 4095
  /\ scanned[1].found = 0
  /\ scanned[1].calls + scanned[1].steps > 4 * 36 * 36


(***************************************************************************)
(* Suggestion-mode edits and the two resolutions of the whole document.    *)
(***************************************************************************)
\* Every key was pressed with suggestion mode on.
AllKeysSuggested == keys # <<>> /\ \A k \in 1..Len(keys) : keys[k].active

AcceptAllReturned == phase = "loaded" /\ pc = "idle" /\ last.op = "acceptAll"

\* C35 as stated: from a document without delimiters, after any suggestion
\* mode edits in the textarea (typing, backspace, forward delete, with or
\* without a selection, at any position), Reject All gives the original
\* document.
C35_Original ==
  (RejectAllReturned /\ AllKeysSuggested /\ ~HasDelimiter(input)) => source = input


\* "a": backspace gives {--a--}; the cursor is put before the a, inside the
\* deletion, and X is typed, which goes in as it is; Reject All gives Xa.
C35_Witness ==
  /\ RejectAllReturned /\ AllKeysSuggested
  /\ input = <<"a">>
  /\ Len(keys) = 2
  /\ keys[1].inputType = "deleteContentBackward" /\ keys[2].inputType = "insertText"
  /\ last.before = OpenerOf("deletion") \o <<"X", "a">> \o CloserOf("deletion")
  /\ source = <<"X", "a">>

\* The document and the selection that the first k keys give in a textarea
\* without suggestion mode, the first key pressed with the selection it had.
RECURSIVE PlainAfter(_)
PlainAfter(k) ==
  IF k = 0 THEN [doc |-> input, s |-> keys[1].selStart, e |-> keys[1].selEnd]
  ELSE LET p == PlainAfter(k - 1)
           type == keys[k].inputType
       IN  IF type = "insertText"
             THEN [doc |-> spliced(p.doc, p.s, p.e, keys[k].data),
                   s |-> p.s + Len(keys[k].data), e |-> p.s + Len(keys[k].data)]
           ELSE IF p.s < p.e
             THEN [doc |-> spliced(p.doc, p.s, p.e, <<>>), s |-> p.s, e |-> p.s]
           ELSE IF type = "deleteContentBackward" /\ p.s > 0
             THEN [doc |-> spliced(p.doc, p.s - 1, p.s, <<>>), s |-> p.s - 1, e |-> p.s - 1]
           ELSE IF type = "deleteContentForward" /\ p.s < Len(p.doc)
             THEN [doc |-> spliced(p.doc, p.s, p.s + 1, <<>>), s |-> p.s, e |-> p.s]
           ELSE p

\* C36 as stated: from a document without delimiters, after suggestion mode
\* edits in the textarea, Accept All gives a document without delimiters,
\* the one the same keys give with suggestion mode off.
C36_Original ==
  (AcceptAllReturned /\ AllKeysSuggested /\ ~HasDelimiter(input)) =>
    /\ ~HasDelimiter(source)
    /\ source = PlainAfter(Len(keys)).doc

\* "ab", the cursor at the end: two backspaces, then Accept All.  The second
\* backspace wraps the `}` of the first deletion, and a{--b-- is left where
\* the empty document is expected.
C36_Witness ==
  /\ AcceptAllReturned /\ AllKeysSuggested
  /\ input = <<"a", "b">>
  /\ Len(keys) = 2
  /\ \A k \in 1..2 : keys[k].inputType = "deleteContentBackward"
  /\ keys[1].selStart = 2 /\ keys[1].selEnd = 2
  /\ PlainAfter(2).doc = <<>>
  /\ source = <<"a">> \o OpenerOf("deletion") \o <<"b", "-", "-">>


(***************************************************************************)
(* C37: for every deleted text s and inserted text t, rejecting the         *)
(* substitution '{~~' + s + '~>' + t + '~~}' gives back s and accepting it  *)
(* gives t.                                                                *)
(***************************************************************************)
Substituted == phase = "substituted"

\* C37: rejectMarkup of the substitution written for s and t is s, and
\* acceptMarkup of it is t, whatever s and t are.
C37_Original ==
  Substituted => /\ scanned[1].rejected = scanned[1].old
                 /\ scanned[1].accepted = scanned[1].new

\* The deleted text is the separator itself: rejecting the substitution
\* gives the empty text, accepting it gives the separator and the inserted
\* text.
C37_Witness ==
  /\ Substituted
  /\ scanned[1].old = Separator
  /\ scanned[1].new = <<"a">>
  /\ scanned[1].rejected = <<>>
  /\ scanned[1].accepted = Separator \o <<"a">>

(***************************************************************************)
(* C39: the markup handleAcceptReject recovers from the data-markup        *)
(* attribute of a rendered region is the region's fullMarkup, also when     *)
(* the markup holds the text of an HTML entity.                            *)
(***************************************************************************)
Recovered == phase = "recovered"

\* C39: un-escaping the escaped markup with the replacement chain of the
\* handler gives back the fullMarkup of the region, and so does the chain
\* applied to what getAttribute returns.
C39_Original ==
  Recovered => /\ scanned[1].chain = scanned[1].fullMarkup
               /\ scanned[1].recovered = scanned[1].fullMarkup

\* The region '{++&lt;++}': the handler recovers '{++<++}'.
C39_Witness ==
  /\ Recovered
  /\ scanned[1].fullMarkup = wrapAddition(Lt)
  /\ scanned[1].chain = wrapAddition(<<"<">>)
  /\ scanned[1].recovered = wrapAddition(<<"<">>)


(***************************************************************************)
(* C38: whenever a CodeMirror view exists, the suggestionModeActive flag    *)
(* of the application equals the suggestionModeField of the view.          *)
(***************************************************************************)
\* C38: after any toggles, layout changes, editor-ready events, loads and
\* returns to the drop zone, a view that exists has its suggestion mode
\* field equal to the flag of the application.
C38_Original == editorView # <<>> => editorView[1].suggestionMode = suggestionModeActive

\* Suggestion mode was switched on with the fallback textarea, then
\* CodeMirror was loaded: the new view has the field off, the flag is on.
C38_Witness ==
  /\ editorView # <<>>
  /\ suggestionModeActive
  /\ ~editorView[1].suggestionMode
  /\ last.op = "loadContent" /\ last.prev = "none"

(***************************************************************************)
(* C40: after every operation, the text of the active editing widget is    *)
(* state.source.                                                           *)
(***************************************************************************)
\* The text held by the active editing widget.
WidgetText == IF editorView # <<>> THEN EditorDoc ELSE value

\* C40: with a document loaded and no loop running, the document of the
\* CodeMirror view, or else the value of the fallback textarea, equals
\* state.source.
C40_Original == phase = "loaded" /\ pc = "idle" => WidgetText = source

\* A file with a line ending in "\r\n" has been loaded: the widget holds the
\* line ending as "\n", state.source as it was read.
C40_Witness ==
  /\ phase = "loaded" /\ pc = "idle"
  /\ last.op = "loadContent"
  /\ source = <<"a", "\r", "\n", "b">>
  /\ WidgetText = <<"a", "\n", "b">>

====
